---- MODULE Spec2Model ----
(***************************************************************************)
(* A model of FLPX (samboyer/flpx): the FLP event-stream codec             *)
(* (flp_read.py, flp_write.py), the playlist-item codec, the stateful      *)
(* event interpreter, load_FLP on the bytes of a file, and the arrangement *)
(* differ and merger (flp_diff.py).                                        *)
(*                                                                         *)
(* Conventions.                                                            *)
(*  - bytes objects are sequences of integers in 0..255.                   *)
(*  - A Python exception is the name of its class, held in a field or      *)
(*    variable called raised ("none" when nothing was raised).             *)
(*  - Python integers are unbounded, TLC's are 32-bit.  Every quantity     *)
(*    that the program reads from or writes to a 4-byte field (and what    *)
(*    is computed from it, such as a playlist item's track) is held as a   *)
(*    pair <<hi, lo>> that stands for hi * 65536 + lo with 0 <= lo < 65536 *)
(*    ("wide" integers: W, WSub, WLess ...).  One-byte and two-byte        *)
(*    quantities, sizes and indices are plain integers.  btoi/itob are     *)
(*    the plain forms of the source's btoi/itob and btoi32/itob32 the      *)
(*    wide forms.                                                          *)
(*  - flp_write._write_event ends with "if DEBUG:", and DEBUG is set only  *)
(*    by the script entry point (flp_write.py:328): the model is of that   *)
(*    configuration, and leaves the debug text file out.                   *)
(***************************************************************************)
EXTENDS Integers, Sequences, FiniteSets, TLC

VARIABLES
    \* test_event_size_to_bytes (flp_write.py:308-320)
    size, sizeBytes, parsed, vpc,
    \* a file f written event by event (_write_event) and read back by the
    \* loop of load_FLP: the events written, the read position, the events read
    f, events, tell, readEvents, epc,
    \* the playlist-item codec: the items of an arrangement, the bytes of
    \* _make_arrangement_data or of a PlaylistData payload, the arguments that
    \* _decode_playlist_item hands to PlaylistItem(...) and what the call gave
    items, itemData, kwargs, decoded, ipc,
    \* diff_arrangement(arr1, arr2): its change list, and as a record of the
    \* pairing at flp_diff.py:64-66 and 97-99 the pairs <<i, j>> of matched items
    \* and the items of arr2 reported added (indices are zero-based)
    arr1, arr2, changes, matched, added, dpc,
    \* the interpreter and the serializer: the events F of a file, how many of
    \* them _handle_flp_event has handled, its ParserContext ctx (the Project
    \* apart, in project), the names it warned about, and what write_FLP wrote
    F, handled, ctx, project, warned, written, lpc,
    \* merge_arrangement_changes: an original arrangement sideO and two edited
    \* versions sideA and sideB of it; the arrangement object and the two change
    \* lists handed to the merger, as they are now; what the first and a second
    \* call returned
    sideO, sideA, sideB, arrangement, changesA, changesB, merged, merged2, mpc,
    \* the pairs of change states with which the merger called resolveConflict,
    \* and what a call of resolve_conflict_default on its own gave
    resolverCalls, resolution,
    \* load_FLP(filepath): the bytes of the file, the position f.tell() and how
    \* far the call has got; the events it handed to _handle_flp_event are in F
    fileBytes, fpos, fpc,
    \* the exception that ended the running operation, "none" if none did
    raised

varintVars == <<size, sizeBytes, parsed, vpc>>

eventVars == <<f, events, tell, readEvents, epc>>

itemVars == <<items, itemData, kwargs, decoded, ipc>>

diffVars == <<arr1, arr2, changes, matched, added, dpc>>

loadVars == <<F, handled, ctx, project, warned, written, lpc>>

mergeVars ==
    <<sideO, sideA, sideB, arrangement, changesA, changesB, merged, merged2, mpc,
      resolverCalls, resolution>>

fileVars == <<fileBytes, fpos, fpc>>

vars == <<size, sizeBytes, parsed, vpc, f, events, tell, readEvents, epc,
          items, itemData, kwargs, decoded, ipc,
          arr1, arr2, changes, matched, added, dpc,
          F, handled, ctx, project, warned, written, lpc,
          sideO, sideA, sideB, arrangement, changesA, changesB, merged, merged2,
          mpc, resolverCalls, resolution, fileBytes, fpos, fpc, raised>>

\* the variables of a part that a specification does not use stay idle
VarintIdle == size = 0 /\ sizeBytes = <<>> /\ parsed = 0 /\ vpc = "idle"

EventIdle ==
    f = <<>> /\ events = <<>> /\ tell = 0 /\ readEvents = <<>> /\ epc = "idle"

ItemIdle ==
    items = <<>> /\ itemData = <<>> /\ kwargs = <<>> /\ decoded = <<>> /\ ipc = "idle"

DiffIdle ==
    /\ arr1 = <<>> /\ arr2 = <<>> /\ changes = <<>> /\ matched = <<>> /\ added = <<>>
    /\ dpc = "idle"

LoadIdle ==
    /\ F = <<>> /\ handled = 0 /\ ctx = <<>> /\ project = <<>> /\ warned = <<>>
    /\ written = <<>> /\ lpc = "idle"

MergeIdle ==
    /\ sideO = <<>> /\ sideA = <<>> /\ sideB = <<>> /\ arrangement = <<>>
    /\ changesA = <<>> /\ changesB = <<>> /\ merged = <<>> /\ merged2 = <<>>
    /\ mpc = "idle" /\ resolverCalls = <<>> /\ resolution = <<>>

FileIdle == fileBytes = <<>> /\ fpos = 0 /\ fpc = "idle"

(***************************************************************************)
(* Bounds of the model.                                                    *)
(***************************************************************************)
\* every size in 0..MaxSize is encoded and parsed, and the probes beside them
MaxSize == 300

\* the number of events written to one file
MaxEvents == 3

\* the number of events of a file that the interpreter reads in any order
MaxStream == 3

\* the number of items of an arrangement given to diff_arrangement
MaxItems == 3

\* the number of items of the original arrangement given to the merger, and
\* of each of its two edited versions
MaxOrigItems == 1

MaxSideItems == 2

(***************************************************************************)
(* Sequence helpers.                                                       *)
(***************************************************************************)
Min(a, b) == IF a < b THEN a ELSE b

Max(a, b) == IF a > b THEN a ELSE b

\* Python's s[lo:hi] for 0 <= lo (zero-based, hi exclusive, clipped to len(s))
Slice(s, lo, hi) == SubSeq(s, lo + 1, Min(hi, Len(s)))

RECURSIVE Concat(_)
Concat(ss) == IF ss = <<>> THEN <<>> ELSE Head(ss) \o Concat(Tail(ss))

(***************************************************************************)
(* Byte primitives.                                                        *)
(***************************************************************************)
\* flp_read.btoi on at most two bytes (and on b"", which is 0)
RECURSIVE btoi(_)
btoi(bytes) == IF bytes = <<>> THEN 0 ELSE Head(bytes) + 256 * btoi(Tail(bytes))

\* the wide integer of a plain one
W(n) == <<n \div 65536, n % 65536>>

WSub(a, b) ==
    IF a[2] - b[2] < 0 THEN <<a[1] - b[1] - 1, a[2] - b[2] + 65536>>
    ELSE <<a[1] - b[1], a[2] - b[2]>>

WLess(a, b) == a[1] < b[1] \/ (a[1] = b[1] /\ a[2] < b[2])

WLeq(a, b) == a = b \/ WLess(a, b)

WAbs(a) == IF a[1] < 0 THEN WSub(W(0), a) ELSE a

\* flp_read.btoi on up to four bytes, as a wide integer
btoi32(bytes) == <<btoi(Slice(bytes, 2, 4)), btoi(Slice(bytes, 0, 2))>>

\* int.to_bytes raises OverflowError for a negative value or one too big
itob_raises(x, length) == x < 0 \/ x >= 256 ^ length

itob32_raises(x) == x[1] < 0 \/ x[1] >= 65536

RECURSIVE itob(_, _)
itob(x, length) ==
    IF length = 0 THEN <<>> ELSE <<x % 256>> \o itob(x \div 256, length - 1)

itob32(x) == itob(x[2], 2) \o itob(x[1], 2)

(***************************************************************************)
(* The TEXT-size varint.                                                   *)
(***************************************************************************)
\* f.read(n) of a binary file f (its bytes) at position tell: short at the end
read(file, pos, n) == Slice(file, pos, pos + n)

RECURSIVE _event_size_to_bytes(_)
_event_size_to_bytes(s) ==
    IF s = 0 THEN <<>>
    ELSE LET nextByte == s % 128
             rest     == s \div 128
         IN  <<IF rest # 0 THEN nextByte + 128 ELSE nextByte>>
                 \o _event_size_to_bytes(rest)

\* the loop of _read_TEXT_event_size; yields the size and the new position
RECURSIVE ReadSizeLoop(_, _, _, _, _)
ReadSizeLoop(file, pos, eventSize, shiftAmnt, step) ==
    LET got  == read(file, pos, 1)
        byte == btoi(got)
        sz   == eventSize + (byte % 128) * (2 ^ shiftAmnt)
    IN  IF byte >= 128
        THEN ReadSizeLoop(file, pos + Len(got), sz, shiftAmnt + step, step)
        ELSE [eventSize |-> sz, tell |-> pos + Len(got)]

_read_TEXT_event_size_shift8(file, pos) == ReadSizeLoop(file, pos, 0, 0, 8)

_read_TEXT_event_size(file, pos) == ReadSizeLoop(file, pos, 0, 0, 7)

(***************************************************************************)
(* The event writer and the event reader.                                  *)
(***************************************************************************)
\* _event_size: the payload width and the position after the size bytes
_event_size(eventId, file, pos) ==
    IF eventId < 64 THEN [eventSize |-> 1, tell |-> pos]
    ELSE IF eventId < 128 THEN [eventSize |-> 2, tell |-> pos]
    ELSE IF eventId < 192 THEN [eventSize |-> 4, tell |-> pos]
    ELSE _read_TEXT_event_size(file, pos)

\* _write_event with an integer eventId: the bytes it writes to f, and the
\* exception of a payload that does not fit (the id byte is written first)
_write_event(eventId, data) ==
    LET idByte == itob(eventId, 1)
    IN  IF eventId < 64
        THEN IF itob_raises(data, 1)
             THEN [bytes |-> idByte, raised |-> "OverflowError"]
             ELSE [bytes |-> idByte \o itob(data, 1), raised |-> "none"]
        ELSE IF eventId < 128
        THEN IF itob_raises(data, 2)
             THEN [bytes |-> idByte, raised |-> "OverflowError"]
             ELSE [bytes |-> idByte \o itob(data, 2), raised |-> "none"]
        ELSE IF eventId < 192
        THEN IF itob32_raises(data)
             THEN [bytes |-> idByte, raised |-> "OverflowError"]
             ELSE [bytes |-> idByte \o itob32(data), raised |-> "none"]
        ELSE [bytes |-> idByte \o _event_size_to_bytes(Len(data)) \o data,
              raised |-> "none"]

\* a turn of the reader loop that leaves the file position where it was
ReadOneEvent_peek(file, pos) ==
    LET eventId  == btoi(read(file, pos, 1))
        sz       == _event_size(eventId, file, pos + 1)
        contents == read(file, sz.tell, sz.eventSize)
    IN  [eventId |-> eventId, contents |-> contents, eventSize |-> sz.eventSize,
         tell |-> pos]

\* one turn of the reader loop of load_FLP (flp_read.py:539-540)
ReadOneEvent(file, pos) ==
    LET eventId  == btoi(read(file, pos, 1))
        sz       == _event_size(eventId, file, pos + 1)
        contents == read(file, sz.tell, sz.eventSize)
    IN  [eventId |-> eventId, contents |-> contents, eventSize |-> sz.eventSize,
         tell |-> sz.tell + Len(contents)]

\* _handle_flp_event's view of a payload: an integer for a numeric event
PayloadValue(eventId, contents) ==
    IF eventId < 128 THEN btoi(contents)
    ELSE IF eventId < 192 THEN btoi32(contents)
    ELSE contents

(***************************************************************************)
(* SpecEvents: up to MaxEvents events are written to a file by             *)
(* _write_event, then the file is read by the loop of load_FLP.            *)
(***************************************************************************)
Zeros(n) == [i \in 1..n |-> 0]

\* -1 and 256 do not fit one byte
ByteData == {0, 255, 256, -1}

\* 65536 does not fit two bytes
WordData == {0, 256, 65535, 65536}

\* 0 and 4294967041 (bytes 01 FF FF FF); 4294967296 does not fit four bytes
DwordData == {W(0), <<65535, 65281>>, <<65536, 0>>}

TextData == {<<>>, <<7>>, Zeros(128)}

WritableEvents ==
    [eventId : {0, 63}, data : ByteData] \cup [eventId : {64, 127}, data : WordData]
        \cup [eventId : {128, 191}, data : DwordData]
        \cup [eventId : {192, 255}, data : TextData]

EventInit ==
    /\ f = <<>> /\ events = <<>> /\ tell = 0 /\ readEvents = <<>> /\ epc = "writing"
    /\ VarintIdle /\ ItemIdle /\ DiffIdle /\ LoadIdle /\ MergeIdle /\ FileIdle /\ raised = "none"

WriteEvent ==
    /\ epc = "writing" /\ raised = "none" /\ Len(events) < MaxEvents
    /\ \E e \in WritableEvents :
          LET w == _write_event(e.eventId, e.data)
          IN  /\ f' = f \o w.bytes
              /\ raised' = w.raised
              /\ events' = Append(events, e)
    /\ UNCHANGED <<tell, readEvents, epc, varintVars, itemVars, diffVars, loadVars, mergeVars, fileVars>>

\* the file is closed and opened for reading
OpenForRead ==
    /\ epc = "writing" /\ raised = "none"
    /\ epc' = "reading" /\ tell' = 0
    /\ UNCHANGED <<f, events, readEvents, raised, varintVars, itemVars, diffVars, loadVars, mergeVars, fileVars>>

\* _bytes_until_end(f, fileLength) != 0: one more event is read
ReadEvent ==
    /\ epc = "reading" /\ Len(f) - tell # 0
    /\ LET r == ReadOneEvent(f, tell)
       IN  /\ tell' = r.tell
           /\ readEvents' = Append(readEvents,
                 [eventId |-> r.eventId, data |-> PayloadValue(r.eventId, r.contents)])
    /\ UNCHANGED <<f, events, epc, raised, varintVars, itemVars, diffVars, loadVars, mergeVars, fileVars>>

EndOfFile ==
    /\ epc = "reading" /\ Len(f) - tell = 0
    /\ epc' = "read"
    /\ UNCHANGED <<f, events, tell, readEvents, raised, varintVars, itemVars, diffVars, loadVars, mergeVars, fileVars>>

EventNext == WriteEvent \/ OpenForRead \/ ReadEvent \/ EndOfFile

SpecEvents == EventInit /\ [][EventNext]_vars

(* C2: the reader loop of load_FLP yields the sequence of (id, payload)
   pairs that _write_event wrote, and consumes exactly the written bytes. *)
C2_ReaderInvertsWriter ==
    epc = "read" => readEvents = events /\ tell = Len(f)

\* the bytes that the first n events of a file take
RECURSIVE BytesOfEvents(_, _)
BytesOfEvents(evs, n) ==
    IF n = 0 THEN <<>>
    ELSE BytesOfEvents(evs, n - 1) \o _write_event(evs[n].eventId, evs[n].data).bytes

(* C20: a write of a BYTE, WORD or DWORD event whose integer does not fit
   the width of its class fails with an exception, and on that failure no
   byte of the event, the id byte included, has been written to the file. *)
C20_OverflowWritesNothing ==
    (epc = "writing" /\ events # <<>>) =>
        LET e    == events[Len(events)]
            fits == IF e.eventId < 64 THEN 0 <= e.data /\ e.data < 256
                    ELSE IF e.eventId < 128 THEN 0 <= e.data /\ e.data < 65536
                    ELSE 0 <= e.data[1] /\ e.data[1] < 65536
        IN  (e.eventId < 192 /\ ~fits) =>
                /\ raised = "OverflowError"
                /\ f = BytesOfEvents(events, Len(events) - 1)

(***************************************************************************)
(* The playlist-item codec.                                                *)
(***************************************************************************)
\* the fields of the dataclass PlaylistItem, none of which has a default
PlaylistItemFields ==
    {"start", "length", "track", "clipStart", "clipEnd", "muted", "selected",
     "itemType", "clipIndex", "misc_4_6", "misc"}

\* PlaylistItem(**kw): the generated __init__ raises TypeError when a
\* required field is not given
PlaylistItem(kw) ==
    IF DOMAIN kw = PlaylistItemFields
    THEN [raised |-> "none", item |-> kw]
    ELSE [raised |-> "TypeError", item |-> <<>>]

\* bit b (a power of two) of a byte: byte & b != 0
BitSet(byte, b) == (byte \div b) % 2 = 1

\* flp_read.py:92-99: the item type and the clip index of an identifier
ItemTypeOf_geq(itemId) == IF itemId >= 20480 THEN "pattern" ELSE "channel"

ItemTypeOf(itemId) == IF itemId > 20480 THEN "pattern" ELSE "channel"

ClipIndexOf(itemId) == IF ItemTypeOf(itemId) = "pattern" THEN itemId - 20481 ELSE itemId

\* the arguments of the PlaylistItem(...) call of _decode_playlist_item
_decode_playlist_item_kwargs(data) ==
    LET itemId == btoi(Slice(data, 6, 8))
    IN  [start     |-> btoi32(Slice(data, 0, 4)),
         length    |-> btoi32(Slice(data, 8, 12)),
         track     |-> WSub(W(500), btoi32(Slice(data, 12, 16))),
         clipStart |-> btoi32(Slice(data, 24, 28)),
         clipEnd   |-> btoi32(Slice(data, 28, 32)),
         misc      |-> Slice(data, 16, 20),
         muted     |-> BitSet(data[20], 32),
         selected  |-> BitSet(data[20], 128),
         itemType  |-> ItemTypeOf(itemId),
         clipIndex |-> ClipIndexOf(itemId)]

_decode_playlist_item(data) == PlaylistItem(_decode_playlist_item_kwargs(data))

\* the identifier that _make_arrangement_data writes at bytes 6-7
ItemIdentifier(item) ==
    IF item.itemType = "pattern" THEN item.clipIndex + 20481 ELSE item.clipIndex

\* the item_bytes of one item (flp_write.py:71-86)
ItemBytes(item) ==
    IF \/ itob32_raises(item.start) \/ itob_raises(ItemIdentifier(item), 2)
       \/ itob32_raises(item.length) \/ itob32_raises(WSub(W(500), item.track))
       \/ itob32_raises(item.clipStart) \/ itob32_raises(item.clipEnd)
    THEN [raised |-> "OverflowError", out |-> <<>>]
    ELSE LET item_bytes ==
                 itob32(item.start) \o item.misc_4_6
                     \o itob(ItemIdentifier(item), 2) \o itob32(item.length)
                     \o itob32(WSub(W(500), item.track)) \o item.misc
                     \o itob32(item.clipStart) \o itob32(item.clipEnd)
         IN  IF Len(item_bytes) = 32
             THEN [raised |-> "none", out |-> item_bytes]
             ELSE [raised |-> "AssertionError", out |-> <<>>]

RECURSIVE _make_arrangement_data(_)
_make_arrangement_data(arrItems) ==
    IF arrItems = <<>> THEN [raised |-> "none", out |-> <<>>]
    ELSE LET one  == ItemBytes(Head(arrItems))
             rest == _make_arrangement_data(Tail(arrItems))
         IN  IF one.raised # "none" THEN one
             ELSE IF rest.raised # "none" THEN rest
             ELSE [raised |-> "none", out |-> one.out \o rest.out]

(***************************************************************************)
(* SpecItem: an arrangement of one valid item is encoded and its record    *)
(* decoded; and a 32-byte record is decoded.                               *)
(***************************************************************************)
\* clipStart of a playlist item that was never shifted: 3212836864
NeverShifted == <<49024, 0>>

\* bytes 16-23 of a record, byte 19 given
MiscBytes(b19) == <<0, 0, 0, b19, 64, 100, 128, 128>>

Byte19s == {0, 32, 128, 160}

ClipRefs ==
    {[itemType |-> "pattern", clipIndex |-> 0], [itemType |-> "pattern", clipIndex |-> 1],
     [itemType |-> "channel", clipIndex |-> 0], [itemType |-> "channel", clipIndex |-> 20480]}

\* PlaylistItems with a valid clipIndex range and track in [0, 500]
ValidItems ==
    { [start |-> st, length |-> W(128), track |-> tr, clipStart |-> cs,
       clipEnd |-> W(128), muted |-> BitSet(b19, 32), selected |-> BitSet(b19, 128),
       itemType |-> ref.itemType, clipIndex |-> ref.clipIndex,
       misc_4_6 |-> m46, misc |-> MiscBytes(b19)] :
        st \in {W(0), W(96)}, tr \in {W(0), W(3), W(500)}, cs \in {W(0), NeverShifted},
        b19 \in Byte19s, ref \in ClipRefs, m46 \in {<<0, 80>>, <<1, 2>>} }

\* 32-byte records, of any content in the fields the decoder reads
Records ==
    { itob32(st) \o m46 \o itob(id, 2) \o itob32(W(128)) \o itob32(tf)
          \o MiscBytes(b19) \o itob32(cs) \o itob32(W(128)) :
        st \in {W(0), W(96)}, m46 \in {<<0, 80>>, <<1, 2>>},
        id \in {0, 5, 20480, 20481, 20482, 65535},
        tf \in {W(0), W(500), W(501), <<65535, 65535>>},
        b19 \in Byte19s, cs \in {W(0), NeverShifted} }

ItemInit ==
    /\ \/ items \in {<<p>> : p \in ValidItems} /\ itemData = <<>> /\ ipc = "items"
       \/ items = <<>> /\ itemData \in Records /\ ipc = "record"
    /\ kwargs = <<>> /\ decoded = <<>>
    /\ VarintIdle /\ EventIdle /\ DiffIdle /\ LoadIdle /\ MergeIdle /\ FileIdle /\ raised = "none"

MakeArrangementData ==
    /\ ipc = "items"
    /\ LET r == _make_arrangement_data(items)
       IN  itemData' = r.out /\ raised' = r.raised
    /\ ipc' = "record"
    /\ UNCHANGED <<items, kwargs, decoded, varintVars, eventVars, diffVars, loadVars, mergeVars, fileVars>>

DecodePlaylistItem ==
    /\ ipc = "record" /\ raised = "none"
    /\ kwargs' = _decode_playlist_item_kwargs(itemData)
    /\ decoded' = _decode_playlist_item(itemData).item
    /\ raised' = _decode_playlist_item(itemData).raised
    /\ ipc' = "decoded"
    /\ UNCHANGED <<items, itemData, varintVars, eventVars, diffVars, loadVars, mergeVars, fileVars>>

ItemNext == MakeArrangementData \/ DecodePlaylistItem

SpecItem == ItemInit /\ [][ItemNext]_vars

(* C5: decoding the record that _make_arrangement_data produces for a valid
   PlaylistItem p yields an item equal to p in every field. *)
C5_ItemRoundTrip ==
    (ipc = "decoded" /\ items # <<>>) => raised = "none" /\ decoded = items[1]

(* C6: every 32-byte record decoded by _decode_playlist_item re-encodes
   through _make_arrangement_data to the same 32 bytes. *)
C6_RecordRoundTrip ==
    (ipc = "decoded" /\ items = <<>>) =>
        /\ raised = "none"
        /\ _make_arrangement_data(<<decoded>>) = [raised |-> "none", out |-> itemData]

(* C8: the item type and the clip index come from the identifier at bytes
   6-7: above 20480 a pattern with clipIndex = identifier - 20481, otherwise
   a channel with clipIndex = identifier. *)
C8_ItemTypeFromIdentifier ==
    ipc = "decoded" =>
        LET identifier == itemData[7] + 256 * itemData[8]
        IN  /\ identifier > 20480 =>
                kwargs.itemType = "pattern" /\ kwargs.clipIndex = identifier - 20481
            /\ identifier <= 20480 =>
                kwargs.itemType = "channel" /\ kwargs.clipIndex = identifier

C8_Witness ==
    /\ ipc = "decoded" /\ itemData[7] + 256 * itemData[8] = 20480
    /\ kwargs.itemType = "channel" /\ kwargs.clipIndex = 20480

(***************************************************************************)
(* The arrangement differ (flp_diff.py).  An arrangement is a dict with    *)
(* "items", a list of dicts with the keys type, clipIndex, start, track,   *)
(* length, clipStart, clipEnd, muted and selected.  An optional value      *)
(* (None or a value) is the empty sequence or a sequence of one value.     *)
(*                                                                         *)
(* The class ArrangementChange (flp_diff.py:15-18) declares the attributes  *)
(* state, index and data and no constructor.  A change object is the       *)
(* record of these three attributes; the call ArrangementChange(state=..)  *)
(* that diff_arrangement makes raises TypeError.                           *)
(***************************************************************************)
None == <<>>

Some(v) == <<v>>

\* an ArrangementChange object whose attributes have been set
ChangeObject(state, index, data) ==
    [state |-> state, index |-> index, data |-> data]

\* the call ArrangementChange(state=..., index=..., data=...): the class takes
\* no arguments
ArrangementChange(state, index, data) ==
    [raised |-> "TypeError", object |-> None]

normalise_clip_start(s) == IF s # NeverShifted THEN s ELSE W(0)

\* the key of flp_diff.py:47 and 54
ItemKey(item) == <<item.type, item.clipIndex, item.start>>

\* items2Dict, a defaultdict(list): its entries in insertion order, each a key
\* with its list of arr2 items (held by their zero-based index in arr2)
DictIndex(d, key) ==
    IF \E n \in 1..Len(d) : d[n].key = key
    THEN CHOOSE n \in 1..Len(d) : d[n].key = key
    ELSE 0

RECURSIVE BuildItems2Dict(_, _, _)
BuildItems2Dict(items2, j, d) ==
    IF j >= Len(items2) THEN d
    ELSE LET key == ItemKey(items2[j + 1])
             n   == DictIndex(d, key)
         IN  BuildItems2Dict(items2, j + 1,
                 IF n = 0 THEN Append(d, [key |-> key, list |-> <<j>>])
                 ELSE [d EXCEPT ![n].list = Append(@, j)])

\* del s[k] for a zero-based k
DelAt(s, k) == SubSeq(s, 1, k) \o SubSeq(s, k + 2, Len(s))

\* the last position of a least distance, where list.index gives the first
IndexOfMin_last(dists) ==
    (CHOOSE n \in 1..Len(dists) :
        /\ \A m \in 1..Len(dists) : WLeq(dists[n], dists[m])
        /\ \A m \in (n + 1)..Len(dists) : dists[m] # dists[n]) - 1

\* dists.index(min(dists)), zero-based: the first position of a least distance
IndexOfMin(dists) ==
    (CHOOSE n \in 1..Len(dists) :
        /\ \A m \in 1..Len(dists) : WLeq(dists[n], dists[m])
        /\ \A m \in 1..(n - 1) : dists[m] # dists[n]) - 1

\* the state of the change of a matched pair, flp_diff.py:70-83 ("none" when
\* no change is reported)
PairState(item, match) ==
    LET clipStartA == normalise_clip_start(item.clipStart)
        clipStartB == normalise_clip_start(match.clipStart)
        hasMoved   == item.track # match.track
        isModified == \/ item.length # match.length
                      \/ clipStartA # clipStartB
                      \/ item.muted # match.muted
    IN  IF isModified THEN "modified" ELSE IF hasMoved THEN "moved" ELSE "none"

\* changes.append(ArrangementChange(...)).  st.objects tells how the change
\* is made: by the call of the source (FALSE), or as an object whose
\* attributes are set one by one (TRUE)
AppendChange(st, state, index, data) ==
    LET made == IF st.objects
                THEN [raised |-> "none", object |-> Some(ChangeObject(state, index, data))]
                ELSE ArrangementChange(state, index, data)
    IN  IF made.raised # "none"
        THEN [st EXCEPT !.raised = made.raised]
        ELSE [st EXCEPT !.changes = @ \o made.object]

\* the loop of flp_diff.py:52-94 from index i on; st holds items2Dict, the
\* changes so far, the pairs matched so far and the exception raised
RECURSIVE DiffLoop(_, _, _, _)
DiffLoop(items1, items2, i, st) ==
    IF i >= Len(items1) \/ st.raised # "none" THEN st
    ELSE
    LET item == items1[i + 1]
        key  == ItemKey(item)
        n    == DictIndex(st.items2Dict, key)
    IN  IF n # 0
        THEN LET matches == st.items2Dict[n].list
                 dists   == [k \in 1..Len(matches) |->
                                WAbs(WSub(item.track, items2[matches[k] + 1].track))]
                 matchI  == IF Len(matches) > 1 THEN IndexOfMin(dists) ELSE 0
             IN  IF matchI >= Len(matches)
                 THEN [st EXCEPT !.raised = "IndexError"]
                 ELSE LET j       == matches[matchI + 1]
                          match   == items2[j + 1]
                          paired  == [st EXCEPT
                                         !.items2Dict[n].list = DelAt(@, matchI),
                                         !.matched = Append(@, <<i, j>>)]
                          state   == PairState(item, match)
                      IN  DiffLoop(items1, items2, i + 1,
                              IF state # "none"
                              THEN AppendChange(paired, state, Some(i), Some(match))
                              ELSE paired)
        ELSE DiffLoop(items1, items2, i + 1,
                      AppendChange(st, "deleted", Some(i), None))

\* flp_diff.py:97-99: what is left in items2Dict, in the order of its entries
RECURSIVE Remaining(_)
Remaining(d) == IF d = <<>> THEN <<>> ELSE Head(d).list \o Remaining(Tail(d))

\* the loops of flp_diff.py:97-99 over the items left, from position k on
RECURSIVE AppendAdded(_, _, _, _)
AppendAdded(items2, left, k, st) ==
    IF k > Len(left) \/ st.raised # "none" THEN st
    ELSE AppendAdded(items2, left, k + 1,
                     AppendChange(st, "added", None, Some(items2[left[k] + 1])))

\* flp_diff.py:43-101, with the changes made as st.objects tells; a call that
\* raises returns no changes
DiffWith(a1, a2, objects) ==
    LET looped == DiffLoop(a1.items, a2.items, 0,
                      [items2Dict |-> BuildItems2Dict(a2.items, 0, <<>>),
                       changes |-> <<>>, matched |-> <<>>, raised |-> "none",
                       objects |-> objects])
        left   == Remaining(looped.items2Dict)
        st     == AppendAdded(a2.items, left, 1, looped)
    IN  IF st.raised # "none"
        THEN [raised |-> st.raised, changes |-> <<>>, matched |-> st.matched,
              added |-> <<>>]
        ELSE [raised |-> "none", changes |-> st.changes, matched |-> st.matched,
              added |-> left]

diff_arrangement(a1, a2) == DiffWith(a1, a2, FALSE)

(***************************************************************************)
(* SpecDiff: diff_arrangement on two arrangements of up to MaxItems items. *)
(***************************************************************************)
DiffItem(type, clipIndex, start, track, length, clipStart, muted) ==
    [type |-> type, clipIndex |-> clipIndex, start |-> W(start), track |-> W(track),
     length |-> W(length), clipStart |-> clipStart, clipEnd |-> W(length),
     muted |-> muted, selected |-> FALSE,
     misc |-> MiscBytes(IF muted THEN 32 ELSE 0)]

\* three items of one key (the second one on another track and never shifted,
\* the third one on the track of the first and longer), and one of another key
DiffItems ==
    {DiffItem("pattern", 0, 0, 0, 64, W(0), FALSE),
     DiffItem("pattern", 0, 0, 3, 64, NeverShifted, FALSE),
     DiffItem("pattern", 0, 0, 0, 128, W(0), FALSE),
     DiffItem("channel", 5, 96, 3, 64, W(0), TRUE)}

RECURSIVE SeqsUpTo(_, _)
SeqsUpTo(S, n) ==
    IF n = 0 THEN {<<>>}
    ELSE LET shorter == SeqsUpTo(S, n - 1)
         IN  shorter \cup {Append(q, x) : q \in shorter, x \in S}

Arrangements == {[items |-> q, tracks |-> <<>>] : q \in SeqsUpTo(DiffItems, MaxItems)}

DiffInit ==
    /\ arr1 \in Arrangements /\ arr2 \in Arrangements
    /\ changes = <<>> /\ matched = <<>> /\ added = <<>> /\ dpc = "call"
    /\ VarintIdle /\ EventIdle /\ ItemIdle /\ LoadIdle /\ MergeIdle /\ FileIdle /\ raised = "none"

DiffArrangement ==
    /\ dpc = "call"
    /\ LET r == diff_arrangement(arr1, arr2)
       IN  /\ changes' = r.changes /\ matched' = r.matched /\ added' = r.added
           /\ raised' = r.raised
    /\ dpc' = "returned"
    /\ UNCHANGED <<arr1, arr2, varintVars, eventVars, itemVars, loadVars, mergeVars, fileVars>>

DiffNext == DiffArrangement

SpecDiff == DiffInit /\ [][DiffNext]_vars

Range(q) == {q[n] : n \in 1..Len(q)}

(* C9: for every arrangement X, also one that holds several items with the
   same key, diff_arrangement(X, X) returns the empty change list. *)
C9_DiffSelfIsEmpty ==
    (dpc = "returned" /\ arr1 = arr2) => raised = "none" /\ changes = <<>>

C9_Witness ==
    /\ dpc = "returned" /\ arr1 = arr2 /\ Len(arr1.items) = 3
    /\ \A n \in 1..3 : ItemKey(arr1.items[n]) = <<"pattern", 0, W(0)>>
    /\ arr1.items[1] # arr1.items[2] /\ arr1.items[1] = arr1.items[3]
    /\ changes = <<>>

(* C10: diff_arrangement(A, B) completes; every item of A is either matched
   with a B item or reported deleted, never both; every item of B is either
   matched with an A item or reported added, never both; and matched items
   have equal keys. *)
C10_DiffPartitions ==
    dpc = "returned" =>
        LET deleted == {c.index[1] : c \in {d \in Range(changes) : d.state = "deleted"}}
            left    == {pr[1] : pr \in Range(matched)}
            right   == {pr[2] : pr \in Range(matched)}
        IN  /\ raised = "none"
            /\ left \cup deleted = 0..(Len(arr1.items) - 1)
            /\ left \cap deleted = {}
            /\ right \cup Range(added) = 0..(Len(arr2.items) - 1)
            /\ right \cap Range(added) = {}
            /\ Cardinality(left) = Len(matched) /\ Cardinality(right) = Len(matched)
            /\ Cardinality(Range(added)) = Len(added)
            /\ Cardinality({c \in Range(changes) : c.state = "added"}) <= Len(added)
            /\ \A pr \in Range(matched) :
                   ItemKey(arr1.items[pr[1] + 1]) = ItemKey(arr2.items[pr[2] + 1])

(* C11: for every matched pair of diff_arrangement(A, B): when length,
   normalised clipStart or muted differ, exactly one change with state
   "modified" is reported, whatever the tracks; otherwise, when the tracks
   differ, exactly one change with state "moved"; otherwise no change.  The
   change carries the index of the item in A and the item of B as data. *)
C11_MatchedPairChange ==
    dpc = "returned" =>
        \A pr \in Range(matched) :
            LET item     == arr1.items[pr[1] + 1]
                match    == arr2.items[pr[2] + 1]
                differs  == \/ item.length # match.length
                            \/ normalise_clip_start(item.clipStart)
                                   # normalise_clip_start(match.clipStart)
                            \/ item.muted # match.muted
                expected == IF differs THEN "modified"
                            ELSE IF item.track # match.track THEN "moved"
                            ELSE "none"
                mine     == {n \in 1..Len(changes) : changes[n].index = Some(pr[1])}
            IN  IF expected = "none" THEN mine = {}
                ELSE /\ Cardinality(mine) = 1
                     /\ \A n \in mine : /\ changes[n].state = expected
                                        /\ changes[n].data = Some(match)

\* the items of arr2 that have the key of item and are in none of the first
\* k pairs of matched (zero-based indices)
Candidates(item, k) ==
    {j \in 0..(Len(arr2.items) - 1) :
        /\ ItemKey(arr2.items[j + 1]) = ItemKey(item)
        /\ \A m \in 1..k : matched[m][2] # j}

TrackDistance(item, j) == WAbs(WSub(item.track, arr2.items[j + 1].track))

(* C21: in diff_arrangement, an item of A is paired with an item of B that has
   its key and is not yet paired; when several such items exist it is one at
   the least distance |track_A - track_B|, the first of them in B's order;
   and no item of B is paired with more than one item of A. *)
C21_ClosestTrackPairing ==
    /\ \A k \in 1..Len(matched) :
           LET item  == arr1.items[matched[k][1] + 1]
               j     == matched[k][2]
               cands == Candidates(item, k - 1)
           IN  /\ j \in cands
               /\ \A c \in cands :
                      /\ WLeq(TrackDistance(item, j), TrackDistance(item, c))
                      /\ TrackDistance(item, c) = TrackDistance(item, j) => j <= c
    /\ \A k, m \in 1..Len(matched) : k # m => matched[k][2] # matched[m][2]

\* an item of A has three candidates, two of them at an equal greater
\* distance, and the nearest is the last one in B
C21_Witness ==
    /\ dpc = "returned" /\ Len(matched) >= 1 /\ Len(arr2.items) = 3
    /\ Cardinality(Candidates(arr1.items[matched[1][1] + 1], 0)) = 3
    /\ matched[1][2] = 2
    /\ TrackDistance(arr1.items[matched[1][1] + 1], 0) = W(3)
    /\ TrackDistance(arr1.items[matched[1][1] + 1], 1) = W(3)

(* C22: diff_arrangement(O, X) returns a change list in which every index of
   O is carried by at most one change, every deleted, modified or moved
   change carries an index that is valid in O, and every added change
   carries no index. *)
C22_ChangeIndices ==
    dpc = "returned" =>
        /\ raised # "TypeError"
        /\ \A n, m \in 1..Len(changes) :
               (n # m /\ changes[n].index # None) => changes[n].index # changes[m].index
        /\ \A n \in 1..Len(changes) :
               IF changes[n].state = "added" THEN changes[n].index = None
               ELSE /\ changes[n].index # None
                    /\ changes[n].index[1] \in 0..(Len(arr1.items) - 1)

(***************************************************************************)
(* SpecVarint: test_event_size_to_bytes, for every size of Sizes.          *)
(***************************************************************************)
SizeProbes == {16383, 16384, 2097151, 2097152, 268435455, 268435456, 2147483647}

Sizes == (0..MaxSize) \cup SizeProbes

VarintInit ==
    /\ size \in Sizes /\ sizeBytes = <<>> /\ parsed = 0 /\ vpc = "size"
    /\ EventIdle /\ ItemIdle /\ DiffIdle /\ LoadIdle /\ MergeIdle /\ FileIdle /\ raised = "none"

EncodeSize ==
    /\ vpc = "size"
    /\ sizeBytes' = _event_size_to_bytes(size)
    /\ vpc' = "encoded"
    /\ UNCHANGED <<size, parsed, eventVars, itemVars, diffVars, loadVars, raised, mergeVars, fileVars>>

ParseSize ==
    /\ vpc = "encoded"
    /\ parsed' = _read_TEXT_event_size(sizeBytes, 0).eventSize
    /\ vpc' = "parsed"
    /\ UNCHANGED <<size, sizeBytes, eventVars, itemVars, diffVars, loadVars, raised, mergeVars, fileVars>>

VarintNext == EncodeSize \/ ParseSize

SpecVarint == VarintInit /\ [][VarintNext]_vars

(* C3: for every size n, _read_TEXT_event_size applied to the bytes of
   _event_size_to_bytes(n) returns n. *)
C3_VarintRoundTrip == vpc = "parsed" => parsed = size

C3_Witness ==
    vpc = "parsed" /\ size = 16384 /\ Len(sizeBytes) = 3 /\ parsed = 16384

(* C4: the encoding of 0 is the one byte 0x00, and every encoding is
   non-empty with the high bit set on every byte except the last. *)
C4_ZeroIsOneZeroByte ==
    vpc = "encoded" =>
        /\ size = 0 => sizeBytes = <<0>>
        /\ sizeBytes # <<>>
        /\ \A i \in 1..Len(sizeBytes) : (sizeBytes[i] >= 128) <=> (i < Len(sizeBytes))

(***************************************************************************)
(* The event interpreter (flp_read.py:239-501).  A str is the sequence of  *)
(* its code points; a dict is a function on its keys; a list is a sequence *)
(* and Python's list index i stands for position i + 1, or for position    *)
(* len + i + 1 when i is negative.                                         *)
(***************************************************************************)
\* EID_NAMES (flp_read.py:115-234)
EID_NAMES ==
    (0 :> "FLP_Enabled") @@ (1 :> "FLP_NoteOn") @@ (2 :> "FLP_Vol") @@
    (3 :> "FLP_Pan") @@ (4 :> "FLP_MIDIChan") @@ (5 :> "FLP_MIDINote") @@
    (6 :> "FLP_MIDIPatch") @@ (7 :> "FLP_MIDIBank") @@
    (9 :> "FLP_LoopActive") @@ (10 :> "FLP_ShowInfo") @@
    (11 :> "FLP_Shuffle") @@ (12 :> "FLP_MainVol") @@ (13 :> "FLP_Stretch") @@
    (14 :> "FLP_Pitchable") @@ (15 :> "FLP_Zipped") @@
    (16 :> "FLP_Delay_Flags") @@ (17 :> "FLP_PatLength") @@
    (18 :> "FLP_BlockLength") @@ (19 :> "FLP_UseLoopPoints") @@
    (20 :> "FLP_LoopType") @@ (21 :> "FLP_ChanType") @@
    (22 :> "FLP_MixSliceNum") @@ (31 :> "IsPerformanceMode") @@
    (64 :> "FLP_NewChan") @@ (65 :> "FLP_NewPat") @@ (66 :> "FLP_Tempo") @@
    (67 :> "FLP_CurrentPatNum") @@ (68 :> "FLP_PatData") @@
    (69 :> "FLP_FX") @@ (70 :> "FLP_Fade_Stereo") @@ (71 :> "FLP_CutOff") @@
    (72 :> "FLP_DotVol") @@ (73 :> "FLP_DotPan") @@ (74 :> "FLP_PreAmp") @@
    (75 :> "FLP_Decay") @@ (76 :> "FLP_Attack") @@ (77 :> "FLP_DotNote") @@
    (78 :> "FLP_DotPitch") @@ (79 :> "FLP_DotMix") @@
    (80 :> "FLP_MainPitch") @@ (81 :> "FLP_RandChan") @@
    (82 :> "FLP_MixChan") @@ (83 :> "FLP_Resonance") @@
    (84 :> "FLP_LoopBar") @@ (85 :> "FLP_StDel") @@ (86 :> "FLP_FX3") @@
    (87 :> "FLP_DotReso") @@ (88 :> "FLP_DotCutOff") @@
    (89 :> "FLP_ShiftDelay") @@ (90 :> "FLP_LoopEndBar") @@
    (91 :> "FLP_Dot") @@ (92 :> "FLP_DotShift") @@ (95 :> "MixerTrackIcon") @@
    (98 :> "SlotIndex") @@ (99 :> "ArrangementIndex") @@
    (100 :> "CurrentArrangement") @@ (128 :> "FLP_Color") @@
    (129 :> "FLP_PlayListItem") @@ (130 :> "FLP_Echo") @@
    (131 :> "FLP_FXSine") @@ (132 :> "FLP_CutCutBy") @@
    (133 :> "FLP_WindowH") @@ (134 :> "FLP_MiddleNote") @@
    (135 :> "FLP_Reserved") @@ (136 :> "FLP_MainResoCutOff") @@
    (137 :> "FLP_DelayReso") @@ (138 :> "FLP_Reverb") @@
    (139 :> "FLP_IntStretch") @@ (140 :> "FLP_SSNote") @@
    (141 :> "FLP_FineTune") @@ (145 :> "ChannelFilterGroup") @@
    (146 :> "CurrentChannelFilterGroup") @@
    (147 :> "InsertAudioOutputTarget") @@ (149 :> "MixerTrackColor") @@
    (154 :> "InsertAudioInputSource") @@ (156 :> "Tempo") @@
    (159 :> "FLP_Version_Minor") @@ (192 :> "FLP_Text_ChanName") @@
    (193 :> "FLP_Text_PatName") @@ (194 :> "FLP_Text_Title") @@
    (195 :> "FLP_Text_Comment") @@ (196 :> "FLP_Text_SampleFileName") @@
    (197 :> "FLP_Text_URL") @@ (198 :> "FLP_Text_CommentRTF") @@
    (199 :> "FLP_Version") @@ (201 :> "FLP_Text_PluginName") @@
    (203 :> "ChannelName") @@ (204 :> "InsertName") @@
    (206 :> "ProjectInfoGenre") @@ (207 :> "ProjectInfoAuthor") @@
    (208 :> "FLP_MIDICtrls") @@ (209 :> "FLP_Delay") @@
    (210 :> "FLP_TS404Params") @@ (211 :> "FLP_DelayLine") @@
    (212 :> "FLP_NewPlugin") @@ (213 :> "FLP_PluginParams") @@
    (215 :> "FLP_ChanParams") @@ (218 :> "ChannelEnvelopeParams") @@
    (219 :> "ChannelParams") @@ (223 :> "PatternAutomationData") @@
    (224 :> "PatternData") @@ (227 :> "AutomationClipData") @@
    (231 :> "ChannelFilterGroupName") @@ (233 :> "PlaylistData") @@
    (235 :> "MixerTrackRouting") @@ (236 :> "MixerTrackInfo") @@
    (238 :> "TrackInfo") @@ (239 :> "TrackName") @@ (241 :> "ArrangementName")

\* "UNKNOWN_" + str(id) for the ids 0..255, the id being the position less one
UnknownNames ==
    <<"UNKNOWN_0", "UNKNOWN_1", "UNKNOWN_2", "UNKNOWN_3", "UNKNOWN_4",
      "UNKNOWN_5", "UNKNOWN_6", "UNKNOWN_7", "UNKNOWN_8", "UNKNOWN_9",
      "UNKNOWN_10", "UNKNOWN_11", "UNKNOWN_12", "UNKNOWN_13", "UNKNOWN_14",
      "UNKNOWN_15", "UNKNOWN_16", "UNKNOWN_17", "UNKNOWN_18", "UNKNOWN_19",
      "UNKNOWN_20", "UNKNOWN_21", "UNKNOWN_22", "UNKNOWN_23", "UNKNOWN_24",
      "UNKNOWN_25", "UNKNOWN_26", "UNKNOWN_27", "UNKNOWN_28", "UNKNOWN_29",
      "UNKNOWN_30", "UNKNOWN_31", "UNKNOWN_32", "UNKNOWN_33", "UNKNOWN_34",
      "UNKNOWN_35", "UNKNOWN_36", "UNKNOWN_37", "UNKNOWN_38", "UNKNOWN_39",
      "UNKNOWN_40", "UNKNOWN_41", "UNKNOWN_42", "UNKNOWN_43", "UNKNOWN_44",
      "UNKNOWN_45", "UNKNOWN_46", "UNKNOWN_47", "UNKNOWN_48", "UNKNOWN_49",
      "UNKNOWN_50", "UNKNOWN_51", "UNKNOWN_52", "UNKNOWN_53", "UNKNOWN_54",
      "UNKNOWN_55", "UNKNOWN_56", "UNKNOWN_57", "UNKNOWN_58", "UNKNOWN_59",
      "UNKNOWN_60", "UNKNOWN_61", "UNKNOWN_62", "UNKNOWN_63", "UNKNOWN_64",
      "UNKNOWN_65", "UNKNOWN_66", "UNKNOWN_67", "UNKNOWN_68", "UNKNOWN_69",
      "UNKNOWN_70", "UNKNOWN_71", "UNKNOWN_72", "UNKNOWN_73", "UNKNOWN_74",
      "UNKNOWN_75", "UNKNOWN_76", "UNKNOWN_77", "UNKNOWN_78", "UNKNOWN_79",
      "UNKNOWN_80", "UNKNOWN_81", "UNKNOWN_82", "UNKNOWN_83", "UNKNOWN_84",
      "UNKNOWN_85", "UNKNOWN_86", "UNKNOWN_87", "UNKNOWN_88", "UNKNOWN_89",
      "UNKNOWN_90", "UNKNOWN_91", "UNKNOWN_92", "UNKNOWN_93", "UNKNOWN_94",
      "UNKNOWN_95", "UNKNOWN_96", "UNKNOWN_97", "UNKNOWN_98", "UNKNOWN_99",
      "UNKNOWN_100", "UNKNOWN_101", "UNKNOWN_102", "UNKNOWN_103",
      "UNKNOWN_104", "UNKNOWN_105", "UNKNOWN_106", "UNKNOWN_107",
      "UNKNOWN_108", "UNKNOWN_109", "UNKNOWN_110", "UNKNOWN_111",
      "UNKNOWN_112", "UNKNOWN_113", "UNKNOWN_114", "UNKNOWN_115",
      "UNKNOWN_116", "UNKNOWN_117", "UNKNOWN_118", "UNKNOWN_119",
      "UNKNOWN_120", "UNKNOWN_121", "UNKNOWN_122", "UNKNOWN_123",
      "UNKNOWN_124", "UNKNOWN_125", "UNKNOWN_126", "UNKNOWN_127",
      "UNKNOWN_128", "UNKNOWN_129", "UNKNOWN_130", "UNKNOWN_131",
      "UNKNOWN_132", "UNKNOWN_133", "UNKNOWN_134", "UNKNOWN_135",
      "UNKNOWN_136", "UNKNOWN_137", "UNKNOWN_138", "UNKNOWN_139",
      "UNKNOWN_140", "UNKNOWN_141", "UNKNOWN_142", "UNKNOWN_143",
      "UNKNOWN_144", "UNKNOWN_145", "UNKNOWN_146", "UNKNOWN_147",
      "UNKNOWN_148", "UNKNOWN_149", "UNKNOWN_150", "UNKNOWN_151",
      "UNKNOWN_152", "UNKNOWN_153", "UNKNOWN_154", "UNKNOWN_155",
      "UNKNOWN_156", "UNKNOWN_157", "UNKNOWN_158", "UNKNOWN_159",
      "UNKNOWN_160", "UNKNOWN_161", "UNKNOWN_162", "UNKNOWN_163",
      "UNKNOWN_164", "UNKNOWN_165", "UNKNOWN_166", "UNKNOWN_167",
      "UNKNOWN_168", "UNKNOWN_169", "UNKNOWN_170", "UNKNOWN_171",
      "UNKNOWN_172", "UNKNOWN_173", "UNKNOWN_174", "UNKNOWN_175",
      "UNKNOWN_176", "UNKNOWN_177", "UNKNOWN_178", "UNKNOWN_179",
      "UNKNOWN_180", "UNKNOWN_181", "UNKNOWN_182", "UNKNOWN_183",
      "UNKNOWN_184", "UNKNOWN_185", "UNKNOWN_186", "UNKNOWN_187",
      "UNKNOWN_188", "UNKNOWN_189", "UNKNOWN_190", "UNKNOWN_191",
      "UNKNOWN_192", "UNKNOWN_193", "UNKNOWN_194", "UNKNOWN_195",
      "UNKNOWN_196", "UNKNOWN_197", "UNKNOWN_198", "UNKNOWN_199",
      "UNKNOWN_200", "UNKNOWN_201", "UNKNOWN_202", "UNKNOWN_203",
      "UNKNOWN_204", "UNKNOWN_205", "UNKNOWN_206", "UNKNOWN_207",
      "UNKNOWN_208", "UNKNOWN_209", "UNKNOWN_210", "UNKNOWN_211",
      "UNKNOWN_212", "UNKNOWN_213", "UNKNOWN_214", "UNKNOWN_215",
      "UNKNOWN_216", "UNKNOWN_217", "UNKNOWN_218", "UNKNOWN_219",
      "UNKNOWN_220", "UNKNOWN_221", "UNKNOWN_222", "UNKNOWN_223",
      "UNKNOWN_224", "UNKNOWN_225", "UNKNOWN_226", "UNKNOWN_227",
      "UNKNOWN_228", "UNKNOWN_229", "UNKNOWN_230", "UNKNOWN_231",
      "UNKNOWN_232", "UNKNOWN_233", "UNKNOWN_234", "UNKNOWN_235",
      "UNKNOWN_236", "UNKNOWN_237", "UNKNOWN_238", "UNKNOWN_239",
      "UNKNOWN_240", "UNKNOWN_241", "UNKNOWN_242", "UNKNOWN_243",
      "UNKNOWN_244", "UNKNOWN_245", "UNKNOWN_246", "UNKNOWN_247",
      "UNKNOWN_248", "UNKNOWN_249", "UNKNOWN_250", "UNKNOWN_251",
      "UNKNOWN_252", "UNKNOWN_253", "UNKNOWN_254", "UNKNOWN_255">>

\* handlerLUT (flp_read.py:384-494): the handler of each event name
handlerLUT ==
    ("FLP_ShowInfo" :> "genericProject") @@
    ("FLP_Shuffle" :> "genericProject") @@
    ("FLP_PatLength" :> "genericProject") @@
    ("FLP_BlockLength" :> "genericProject") @@
    ("FLP_CurrentPatNum" :> "genericProject") @@
    ("FLP_MainPitch" :> "genericProject") @@
    ("FLP_WindowH" :> "genericProject") @@
    ("FLP_Text_Title" :> "genericProject") @@
    ("FLP_Text_Comment" :> "genericProject") @@
    ("FLP_Text_URL" :> "genericProject") @@
    ("FLP_Text_CommentRTF" :> "genericProject") @@
    ("FLP_Version" :> "genericProject") @@
    ("IsPerformanceMode" :> "genericProject") @@
    ("CurrentArrangement" :> "genericProject") @@
    ("CurrentChannelFilterGroup" :> "genericProject") @@
    ("Tempo" :> "genericProject") @@
    ("ProjectInfoGenre" :> "genericProject") @@
    ("ProjectInfoAuthor" :> "genericProject") @@
    ("FLP_Version_Minor" :> "genericProject") @@
    ("FLP_LoopActive" :> "genericProject") @@
    ("UNKNOWN_28" :> "genericProject") @@
    ("UNKNOWN_37" :> "genericProject") @@
    ("UNKNOWN_200" :> "genericProject") @@
    ("UNKNOWN_35" :> "genericProject") @@
    ("UNKNOWN_23" :> "genericProject") @@
    ("UNKNOWN_30" :> "genericProject") @@
    ("UNKNOWN_202" :> "genericProject") @@
    ("UNKNOWN_237" :> "genericProject") @@
    ("UNKNOWN_216" :> "genericProject") @@
    ("UNKNOWN_29" :> "genericProject") @@
    ("UNKNOWN_39" :> "genericProject") @@
    ("UNKNOWN_40" :> "genericProject") @@
    ("UNKNOWN_38" :> "genericProject") @@
    ("UNKNOWN_225" :> "genericProject") @@ ("FLP_NewChan" :> "newChannel") @@
    ("FLP_Enabled" :> "genericChannel") @@
    ("FLP_LoopType" :> "genericChannel") @@
    ("FLP_ChanType" :> "genericChannel") @@
    ("FLP_MixSliceNum" :> "genericChannel") @@
    ("FLP_FX" :> "genericChannel") @@
    ("FLP_Text_SampleFileName" :> "genericChannel") @@
    ("FLP_Fade_Stereo" :> "genericChannel") @@
    ("FLP_CutOff" :> "genericChannel") @@
    ("FLP_PreAmp" :> "genericChannel") @@ ("FLP_Decay" :> "genericChannel") @@
    ("FLP_Attack" :> "genericChannel") @@
    ("FLP_Resonance" :> "genericChannel") @@
    ("FLP_StDel" :> "genericChannel") @@ ("FLP_FX3" :> "genericChannel") @@
    ("FLP_ShiftDelay" :> "genericChannel") @@
    ("FLP_FXSine" :> "genericChannel") @@
    ("FLP_CutCutBy" :> "genericChannel") @@
    ("FLP_Reverb" :> "genericChannel") @@
    ("FLP_IntStretch" :> "genericChannel") @@
    ("FLP_SSNote" :> "genericChannel") @@ ("FLP_Delay" :> "genericChannel") @@
    ("FLP_ChanParams" :> "genericChannel") @@
    ("ChannelName" :> "channelName") @@
    ("ChannelEnvelopeParams" :> "genericChannelAppend") @@
    ("ChannelParams" :> "genericChannel") @@
    ("ChannelFilterGroup" :> "genericChannel") @@
    ("UNKNOWN_32" :> "genericChannel") @@
    ("UNKNOWN_97" :> "genericChannel") @@
    ("UNKNOWN_143" :> "genericChannel") @@
    ("UNKNOWN_144" :> "genericChannel") @@
    ("UNKNOWN_221" :> "genericChannel") @@
    ("UNKNOWN_229" :> "genericChannel") @@
    ("UNKNOWN_228" :> "genericChannelAppend") @@
    ("UNKNOWN_234" :> "genericChannel") @@
    ("UNKNOWN_150" :> "genericChannel") @@
    ("UNKNOWN_157" :> "genericChannel") @@
    ("UNKNOWN_158" :> "genericChannel") @@
    ("UNKNOWN_164" :> "genericChannel") @@
    ("UNKNOWN_142" :> "genericChannel") @@ ("FLP_NewPat" :> "newPattern") @@
    ("FLP_Text_PatName" :> "patternName") @@
    ("PatternAutomationData" :> "genericPattern") @@
    ("PatternData" :> "genericPattern") @@
    ("FLP_Color" :> "genericChannelOrMixerEffect") @@
    ("FLP_Text_PluginName" :> "genericChannelOrMixerEffect") @@
    ("FLP_NewPlugin" :> "genericChannelOrMixerEffect") @@
    ("FLP_PluginParams" :> "genericChannelOrMixerEffect") @@
    ("UNKNOWN_155" :> "genericChannelOrMixerEffect") @@
    ("MixerTrackInfo" :> "newMixerTrack") @@
    ("InsertAudioOutputTarget" :> "genericMixerTrack") @@
    ("InsertAudioInputSource" :> "genericMixerTrack") @@
    ("InsertName" :> "mixerTrackName") @@
    ("MixerTrackRouting" :> "genericMixerTrack") @@
    ("MixerTrackColor" :> "genericMixerTrack") @@
    ("MixerTrackIcon" :> "genericMixerTrack") @@
    ("SlotIndex" :> "setCtxSlotIndex") @@
    ("ArrangementIndex" :> "newArrangement") @@
    ("ArrangementName" :> "arrangementName") @@
    ("PlaylistData" :> "parsePlaylistData") @@
    ("UNKNOWN_36" :> "genericArrangement") @@
    ("TrackInfo" :> "newArrangementTrack") @@
    ("TrackName" :> "arrangementTrackName") @@
    ("AutomationClipData" :> "None") @@
    ("ChannelFilterGroupName" :> "newChannelFilterGroup")

eid_to_ename(id) ==
    IF id \in DOMAIN EID_NAMES THEN EID_NAMES[id] ELSE UnknownNames[id + 1]

\* ename_to_eid of a name that starts with UNKNOWN_ or is a value of EID_NAMES
ename_to_eid(event_name) ==
    IF \E id \in 0..255 : UnknownNames[id + 1] = event_name
    THEN CHOOSE id \in 0..255 : UnknownNames[id + 1] = event_name
    ELSE CHOOSE id \in DOMAIN EID_NAMES : EID_NAMES[id] = event_name

\* {}: the dict with no key
EmptyDict == [k \in {} |-> <<>>]

\* d[k] = v
DictSet(d, k, v) == [x \in (DOMAIN d) \cup {k} |-> IF x = k THEN v ELSE d[x]]

\* list[i] raises IndexError unless -len <= i < len
PyIndexOK(list, i) == -Len(list) <= i /\ i < Len(list)

PyPos(list, i) == IF i >= 0 THEN i + 1 ELSE Len(list) + i + 1

\* the 16-bit code units of little-endian bytes of even length
CodeUnits(bytes) ==
    [k \in 1..(Len(bytes) \div 2) |-> bytes[2 * k - 1] + 256 * bytes[2 * k]]

\* the code points of UTF-16 code units; a surrogate that is not the first
\* of a pair, or a first one without its second, cannot be decoded
RECURSIVE DecodeUnits(_)
DecodeUnits(units) ==
    IF units = <<>> THEN [raised |-> "none", s |-> <<>>]
    ELSE IF units[1] >= 55296 /\ units[1] <= 56319
    THEN IF Len(units) >= 2 /\ units[2] >= 56320 /\ units[2] <= 57343
         THEN LET rest == DecodeUnits(SubSeq(units, 3, Len(units)))
              IN  [rest EXCEPT !.s =
                      <<65536 + (units[1] - 55296) * 1024 + (units[2] - 56320)>> \o @]
         ELSE [raised |-> "UnicodeDecodeError", s |-> <<>>]
    ELSE IF units[1] >= 56320 /\ units[1] <= 57343
    THEN [raised |-> "UnicodeDecodeError", s |-> <<>>]
    ELSE LET rest == DecodeUnits(Tail(units))
         IN  [rest EXCEPT !.s = <<units[1]>> \o @]

\* contents.decode("UTF-16-LE")
decode_UTF16(contents) ==
    IF Len(contents) % 2 = 1 THEN [raised |-> "UnicodeDecodeError", s |-> <<>>]
    ELSE LET r == DecodeUnits(CodeUnits(contents))
         IN  IF r.raised # "none" THEN [raised |-> r.raised, s |-> <<>>] ELSE r

\* s.encode("UTF-16-LE") of a str without surrogate code points (a str that
\* decode gave has none)
RECURSIVE _str_to_UTF16(_)
_str_to_UTF16(s) ==
    IF s = <<>> THEN <<>>
    ELSE LET c == Head(s)
         IN  (IF c < 65536 THEN itob(c, 2)
              ELSE itob(55296 + ((c - 65536) \div 1024), 2)
                       \o itob(56320 + ((c - 65536) % 1024), 2))
                 \o _str_to_UTF16(Tail(s))

\* the default-constructed objects of _types.py
NewChannel == [name |-> <<>>, type |-> "", data |-> None, misc |-> EmptyDict]

NewPattern == [name |-> None, misc |-> EmptyDict]

NewPlaylistArrangement ==
    [name |-> None, items |-> <<>>, tracks |-> <<>>, misc |-> EmptyDict]

NewArrangementTrack(misc) == [name |-> None, misc |-> misc]

NewMixerEffect == [name |-> <<>>, misc |-> EmptyDict]

NewMixerTrack(misc) == [name |-> None, effects |-> EmptyDict, misc |-> misc]

NewProject ==
    [projectInfo |-> EmptyDict, arrangements |-> <<>>, channels |-> <<>>,
     patterns |-> <<>>, channelFilterGroups |-> <<>>, mixerTracks |-> <<>>]

NewParserContext ==
    [currentArrangement |-> -1, currentArrangementTrack |-> -1,
     currentPattern |-> -1, currentChannel |-> -1, currentMixerTrack |-> -1,
     currentMixerTrackEffectSlot |-> -1, isMixerEffect |-> FALSE]

(***************************************************************************)
(* The handlers of _handle_flp_event.  st holds ctx, project, the          *)
(* exception raised, the names warned about and, in kwargs, the arguments  *)
(* of the last PlaylistItem(...) call.  The right-hand side of a Python     *)
(* assignment is evaluated before the indexing of its target.              *)
(***************************************************************************)
Raise(st, exception) == [st EXCEPT !.raised = exception]

genericProject(st, eventName, contents) ==
    [st EXCEPT !.project.projectInfo = DictSet(@, eventName, contents)]

genericChannel(st, eventName, contents) ==
    LET channels == st.project.channels
        cur      == st.ctx.currentChannel
    IN  IF ~PyIndexOK(channels, cur) THEN Raise(st, "IndexError")
        ELSE [st EXCEPT !.project.channels[PyPos(channels, cur)].misc =
                            DictSet(@, eventName, contents)]

genericChannelAppend(st, eventName, contents) ==
    LET channels == st.project.channels
        cur      == st.ctx.currentChannel
    IN  IF ~PyIndexOK(channels, cur) THEN Raise(st, "IndexError")
        ELSE [st EXCEPT !.project.channels[PyPos(channels, cur)].misc =
                            DictSet(@, eventName,
                                Append(IF eventName \in DOMAIN @ THEN @[eventName]
                                       ELSE <<>>, contents))]

genericArrangement(st, eventName, contents) ==
    LET arrangements == st.project.arrangements
        cur          == st.ctx.currentArrangement
    IN  IF ~PyIndexOK(arrangements, cur) THEN Raise(st, "IndexError")
        ELSE [st EXCEPT !.project.arrangements[PyPos(arrangements, cur)].misc =
                            DictSet(@, eventName, contents)]

genericPattern(st, eventName, contents) ==
    LET patterns == st.project.patterns
        cur      == st.ctx.currentPattern
    IN  IF ~PyIndexOK(patterns, cur) THEN Raise(st, "IndexError")
        ELSE [st EXCEPT !.project.patterns[PyPos(patterns, cur)].misc =
                            DictSet(@, eventName, contents)]

genericMixerTrack(st, eventName, contents) ==
    LET mixerTracks == st.project.mixerTracks
        cur         == st.ctx.currentMixerTrack
    IN  IF ~PyIndexOK(mixerTracks, cur) THEN Raise(st, "IndexError")
        ELSE [st EXCEPT !.project.mixerTracks[PyPos(mixerTracks, cur)].misc =
                            DictSet(@, eventName, contents)]

genericMixerEffect(st, eventName, contents) ==
    LET mixerTracks == st.project.mixerTracks
        cur         == st.ctx.currentMixerTrack
        slot        == st.ctx.currentMixerTrackEffectSlot
    IN  IF ~PyIndexOK(mixerTracks, cur) THEN Raise(st, "IndexError")
        ELSE [st EXCEPT !.project.mixerTracks[PyPos(mixerTracks, cur)].effects =
                 LET effect == IF slot \in DOMAIN @ THEN @[slot] ELSE NewMixerEffect
                 IN  DictSet(@, slot,
                         [effect EXCEPT !.misc = DictSet(@, eventName, contents)])]

genericChannelOrMixerEffect(st, eventName, contents) ==
    IF st.ctx.isMixerEffect THEN genericMixerEffect(st, eventName, contents)
    ELSE genericChannel(st, eventName, contents)

patternName(st, eventName, contents) ==
    LET name     == decode_UTF16(contents)
        patterns == st.project.patterns
        cur      == st.ctx.currentPattern
    IN  IF name.raised # "none" THEN Raise(st, name.raised)
        ELSE IF ~PyIndexOK(patterns, cur) THEN Raise(st, "IndexError")
        ELSE [st EXCEPT !.project.patterns[PyPos(patterns, cur)].name = Some(name.s)]

channelName(st, eventName, contents) ==
    LET name        == decode_UTF16(contents)
        mixerTracks == st.project.mixerTracks
        track       == st.ctx.currentMixerTrack
        slot        == st.ctx.currentMixerTrackEffectSlot
        channels    == st.project.channels
        cur         == st.ctx.currentChannel
    IN  IF name.raised # "none" THEN Raise(st, name.raised)
        ELSE IF st.ctx.isMixerEffect
        THEN IF ~PyIndexOK(mixerTracks, track) THEN Raise(st, "IndexError")
             ELSE IF slot \notin DOMAIN mixerTracks[PyPos(mixerTracks, track)].effects
             THEN Raise(st, "KeyError")
             ELSE [st EXCEPT !.project.mixerTracks[PyPos(mixerTracks, track)]
                                  .effects[slot].name = name.s]
        ELSE IF ~PyIndexOK(channels, cur) THEN Raise(st, "IndexError")
             ELSE [st EXCEPT !.project.channels[PyPos(channels, cur)].name = name.s]

arrangementName(st, eventName, contents) ==
    LET name         == decode_UTF16(contents)
        arrangements == st.project.arrangements
        cur          == st.ctx.currentArrangement
    IN  IF name.raised # "none" THEN Raise(st, name.raised)
        ELSE IF ~PyIndexOK(arrangements, cur) THEN Raise(st, "IndexError")
        ELSE [st EXCEPT !.project.arrangements[PyPos(arrangements, cur)].name =
                            Some(name.s)]

arrangementTrackName(st, eventName, contents) ==
    LET name         == decode_UTF16(contents)
        arrangements == st.project.arrangements
        cur          == st.ctx.currentArrangement
        track        == st.ctx.currentArrangementTrack
    IN  IF name.raised # "none" THEN Raise(st, name.raised)
        ELSE IF ~PyIndexOK(arrangements, cur) THEN Raise(st, "IndexError")
        ELSE LET tracks == arrangements[PyPos(arrangements, cur)].tracks
             IN  IF ~PyIndexOK(tracks, track) THEN Raise(st, "IndexError")
                 ELSE [st EXCEPT !.project.arrangements[PyPos(arrangements, cur)]
                                      .tracks[PyPos(tracks, track)].name = Some(name.s)]

mixerTrackName(st, eventName, contents) ==
    LET name        == decode_UTF16(contents)
        mixerTracks == st.project.mixerTracks
        cur         == st.ctx.currentMixerTrack
    IN  IF name.raised # "none" THEN Raise(st, name.raised)
        ELSE IF ~PyIndexOK(mixerTracks, cur) THEN Raise(st, "IndexError")
        ELSE [st EXCEPT !.project.mixerTracks[PyPos(mixerTracks, cur)].name =
                            Some(name.s)]

\* newChannel without its second statement (flp_read.py:342)
newChannel_keepsEffect(st, eventName, contents) ==
    [st EXCEPT !.ctx.currentChannel = contents,
               !.project.channels =
                   IF contents >= Len(@) THEN Append(@, NewChannel) ELSE @]

newChannel(st, eventName, contents) ==
    [st EXCEPT !.ctx.currentChannel = contents,
               !.ctx.isMixerEffect = FALSE,
               !.project.channels =
                   IF contents >= Len(@) THEN Append(@, NewChannel) ELSE @]

newPattern(st, eventName, contents) ==
    LET index == contents - 1
    IN  [st EXCEPT !.ctx.currentPattern = index,
                   !.project.patterns =
                       IF index >= Len(@) THEN Append(@, NewPattern) ELSE @]

newArrangement(st, eventName, contents) ==
    [st EXCEPT !.ctx.currentArrangement = contents,
               !.project.arrangements = Append(@, NewPlaylistArrangement)]

newMixerTrack(st, eventName, contents) ==
    [st EXCEPT !.ctx.currentMixerTrack = Len(st.project.mixerTracks),
               !.project.mixerTracks =
                   Append(@, NewMixerTrack(DictSet(EmptyDict, eventName, contents)))]

newArrangementTrack(st, eventName, contents) ==
    LET arrangements == st.project.arrangements
        cur          == st.ctx.currentArrangement
    IN  IF ~PyIndexOK(arrangements, cur) THEN Raise(st, "IndexError")
        ELSE [st EXCEPT
                 !.ctx.currentArrangementTrack =
                     Len(arrangements[PyPos(arrangements, cur)].tracks),
                 !.project.arrangements[PyPos(arrangements, cur)].tracks =
                     Append(@, NewArrangementTrack(
                                   DictSet(EmptyDict, eventName, contents)))]

newChannelFilterGroup(st, eventName, contents) ==
    LET name == decode_UTF16(contents)
    IN  IF name.raised # "none" THEN Raise(st, name.raised)
        ELSE [st EXCEPT !.project.channelFilterGroups =
                            Append(@, [name |-> name.s])]

\* flp_read.py:376-377 for one record: the item is made, then appended
RECURSIVE PlaylistLoop(_, _, _)
AppendItem(st, contents, item, made) ==
    IF made.raised # "none" THEN Raise(st, made.raised)
    ELSE IF ~PyIndexOK(st.project.arrangements, st.ctx.currentArrangement)
    THEN Raise(st, "IndexError")
    ELSE PlaylistLoop(
             [st EXCEPT !.project.arrangements[
                            PyPos(st.project.arrangements, st.ctx.currentArrangement)]
                            .items = Append(@, made.item)],
             contents, item + 1)

\* the loop of parsePlaylistData from the record numbered item on
PlaylistLoop(st, contents, item) ==
    IF item >= Len(contents) \div 32 THEN st
    ELSE AppendItem(
             [st EXCEPT !.kwargs = _decode_playlist_item_kwargs(
                                       Slice(contents, item * 32, (item + 1) * 32))],
             contents, item,
             _decode_playlist_item(Slice(contents, item * 32, (item + 1) * 32)))

parsePlaylistData(st, eventName, contents) == PlaylistLoop(st, contents, 0)

setCtxSlotIndex(st, eventName, contents) ==
    [st EXCEPT !.ctx.currentMixerTrackEffectSlot = contents,
               !.ctx.isMixerEffect = TRUE]

\* handlerLUT[eventName]() for a handler that is not None
CallHandler(handler, st, eventName, contents) ==
    CASE handler = "genericProject" -> genericProject(st, eventName, contents)
      [] handler = "genericChannel" -> genericChannel(st, eventName, contents)
      [] handler = "genericChannelAppend" ->
             genericChannelAppend(st, eventName, contents)
      [] handler = "genericArrangement" -> genericArrangement(st, eventName, contents)
      [] handler = "genericPattern" -> genericPattern(st, eventName, contents)
      [] handler = "genericMixerTrack" -> genericMixerTrack(st, eventName, contents)
      [] handler = "genericChannelOrMixerEffect" ->
             genericChannelOrMixerEffect(st, eventName, contents)
      [] handler = "patternName" -> patternName(st, eventName, contents)
      [] handler = "channelName" -> channelName(st, eventName, contents)
      [] handler = "arrangementName" -> arrangementName(st, eventName, contents)
      [] handler = "arrangementTrackName" ->
             arrangementTrackName(st, eventName, contents)
      [] handler = "mixerTrackName" -> mixerTrackName(st, eventName, contents)
      [] handler = "newChannel" -> newChannel(st, eventName, contents)
      [] handler = "newPattern" -> newPattern(st, eventName, contents)
      [] handler = "newArrangement" -> newArrangement(st, eventName, contents)
      [] handler = "newMixerTrack" -> newMixerTrack(st, eventName, contents)
      [] handler = "newArrangementTrack" ->
             newArrangementTrack(st, eventName, contents)
      [] handler = "newChannelFilterGroup" ->
             newChannelFilterGroup(st, eventName, contents)
      [] handler = "parsePlaylistData" -> parsePlaylistData(st, eventName, contents)
      [] handler = "setCtxSlotIndex" -> setCtxSlotIndex(st, eventName, contents)

\* _handle_flp_event with a name that handlerLUT lacks kept in projectInfo
_handle_flp_event_keeps(st, eventId, contents) ==
    LET eventName == eid_to_ename(eventId)
        value     == PayloadValue(eventId, contents)
    IN  IF eventName \notin DOMAIN handlerLUT
        THEN genericProject([st EXCEPT !.warned = Append(@, eventName)],
                            eventName, value)
        ELSE IF handlerLUT[eventName] # "None"
        THEN CallHandler(handlerLUT[eventName], st, eventName, value)
        ELSE st

\* _handle_flp_event(ctx, eventId, contents) for the bytes contents of an event
_handle_flp_event(st, eventId, contents) ==
    LET eventName == eid_to_ename(eventId)
        value     == PayloadValue(eventId, contents)
    IN  IF eventName \notin DOMAIN handlerLUT
        THEN [st EXCEPT !.warned = Append(@, eventName)]
        ELSE IF handlerLUT[eventName] # "None"
        THEN CallHandler(handlerLUT[eventName], st, eventName, value)
        ELSE st

(***************************************************************************)
(* write_FLP (flp_write.py:93-303).  w holds the bytes written to the file *)
(* f, the events that _write_event wrote (the id and the payload bytes of  *)
(* each) and the exception that ended the call; once an exception is       *)
(* raised nothing more is written.                                         *)
(***************************************************************************)
\* b"FLhd" and b"FLdt"
HEADERCHUNKID == <<70, 76, 104, 100>>

DATACHUNKID == <<70, 76, 100, 116>>

WRaise(w, exception) ==
    IF w.raised # "none" THEN w ELSE [w EXCEPT !.raised = exception]

\* w once a call of _write_event wrote r.bytes and raised r.raised
Wrote(w, eventId, data, r) ==
    [f      |-> w.f \o r.bytes,
     events |-> IF r.raised # "none" THEN w.events
                ELSE Append(w.events,
                         [eventId  |-> eventId,
                          contents |-> IF eventId < 192 THEN Tail(r.bytes) ELSE data]),
     raised |-> r.raised]

\* _write_event(f, eventId, data) for an integer eventId
Emit(w, eventId, data) ==
    IF w.raised # "none" THEN w ELSE Wrote(w, eventId, data, _write_event(eventId, data))

\* _write_event(f, eventName, data) for a str eventName
EmitNamed(w, eventName, data) == Emit(w, ename_to_eid(eventName), data)

\* _write_event(f, eventName, dict[eventName]); a missing key raises KeyError
EmitItem(w, eventName, dict) ==
    IF w.raised # "none" THEN w
    ELSE IF eventName \notin DOMAIN dict THEN WRaise(w, "KeyError")
    ELSE EmitNamed(w, eventName, dict[eventName])

\* if value: for an Optional[str]
Truthy(value) == value # None /\ value[1] # <<>>

\* if name: _write_event(f, eventName, _str_to_UTF16(name)), name Optional[str]
EmitName(w, eventName, name) ==
    IF w.raised # "none" THEN w
    ELSE IF Truthy(name) THEN EmitNamed(w, eventName, _str_to_UTF16(name[1])) ELSE w

writeGenericProjectEvent(w, proj, eventId) ==
    IF w.raised # "none" THEN w
    ELSE IF eid_to_ename(eventId) \notin DOMAIN proj.projectInfo
    THEN WRaise(w, "KeyError")
    ELSE Emit(w, eventId, proj.projectInfo[eid_to_ename(eventId)])

RECURSIVE WriteProjectEvents(_, _, _)
WriteProjectEvents(w, proj, ids) ==
    IF w.raised # "none" \/ ids = <<>> THEN w
    ELSE WriteProjectEvents(writeGenericProjectEvent(w, proj, Head(ids)), proj, Tail(ids))

\* flp_write.py:114-139
PreludeIds ==
    <<199, 159, 28, 37, 200, 156, 67, 9, 11, 80, 17, 18, 35, 23, 30, 10, 194,
      206, 207, 202, 195, 197, 237>>

\* flp_write.py:142-143
RECURSIVE WriteChannelGroups(_, _)
WriteChannelGroups(w, groups) ==
    IF w.raised # "none" \/ groups = <<>> THEN w
    ELSE WriteChannelGroups(Emit(w, 231, _str_to_UTF16(Head(groups).name)),
                            Tail(groups))

\* for miscKey in keys: if miscKey in misc: _write_event(f, miscKey, misc[miscKey])
RECURSIVE WriteMisc(_, _, _)
WriteMisc(w, misc, keys) ==
    IF w.raised # "none" \/ keys = <<>> THEN w
    ELSE WriteMisc(IF Head(keys) \in DOMAIN misc
                   THEN EmitNamed(w, Head(keys), misc[Head(keys)])
                   ELSE w,
                   misc, Tail(keys))

\* for data in list: _write_event(f, eventName, data)
RECURSIVE WriteList(_, _, _)
WriteList(w, eventName, list) ==
    IF w.raised # "none" \/ list = <<>> THEN w
    ELSE WriteList(EmitNamed(w, eventName, Head(list)), eventName, Tail(list))

\* flp_write.py:150-156, from the pattern of index i on
RECURSIVE WritePatterns(_, _, _)
WritePatterns(w, patterns, i) ==
    IF w.raised # "none" \/ i >= Len(patterns) THEN w
    ELSE WritePatterns(
             WriteMisc(
                 EmitName(EmitNamed(w, "FLP_NewPat", i + 1),
                          "FLP_Text_PatName", patterns[i + 1].name),
                 patterns[i + 1].misc, <<"PatternAutomationData", "PatternData">>),
             patterns, i + 1)

\* flp_write.py:158-159
WriteUnknown226(w, proj) ==
    IF w.raised # "none" THEN w
    ELSE IF "UNKNOWN_226" \notin DOMAIN proj.projectInfo THEN WRaise(w, "KeyError")
    ELSE WriteList(w, "UNKNOWN_226", proj.projectInfo["UNKNOWN_226"])

\* flp_write.py:162-164; len(None) raises TypeError in _write_event
RECURSIVE WriteAutomationClips(_, _)
WriteAutomationClips(w, channels) ==
    IF w.raised # "none" \/ channels = <<>> THEN w
    ELSE WriteAutomationClips(
             IF Head(channels).type # "automation_clip" THEN w
             ELSE IF Head(channels).data = None
             THEN [w EXCEPT !.f = @ \o <<227>>, !.raised = "TypeError"]
             ELSE EmitNamed(w, "AutomationClipData", Head(channels).data[1]),
             Tail(channels))

CHANNEL_TYPE_MAP ==
    ("sampler" :> 0) @@ ("generator" :> 2) @@ ("audio_clip" :> 4)
        @@ ("automation_clip" :> 5)

\* flp_write.py:184-225
ChannelMiscKeys ==
    <<"UNKNOWN_155", "FLP_Color", "FLP_PluginParams", "FLP_Enabled", "FLP_Delay",
      "FLP_Reverb", "FLP_IntStretch", "FLP_ShiftDelay", "UNKNOWN_97", "FLP_FX",
      "FLP_FX3", "FLP_CutOff", "FLP_Resonance", "FLP_PreAmp", "FLP_Decay",
      "FLP_Attack", "FLP_StDel", "FLP_FXSine", "FLP_Fade_Stereo",
      "FLP_MixSliceNum", "ChannelParams", "UNKNOWN_229", "UNKNOWN_221",
      "FLP_ChanParams", "FLP_CutCutBy", "UNKNOWN_144", "ChannelFilterGroup",
      "UNKNOWN_234", "UNKNOWN_32", "UNKNOWN_228", "FLP_SSNote",
      "ChannelEnvelopeParams", "UNKNOWN_143", "FLP_LoopType",
      "FLP_Text_SampleFileName", "UNKNOWN_142", "UNKNOWN_150", "UNKNOWN_157",
      "UNKNOWN_158", "UNKNOWN_164">>

\* isinstance(channel.misc[miscKey], list): in a Project that the interpreter
\* built, the values that are lists are those stored by genericChannelAppend
IsListKey(miscKey) ==
    miscKey \in DOMAIN handlerLUT /\ handlerLUT[miscKey] = "genericChannelAppend"

\* flp_write.py:226-231 for the keys of ChannelMiscKeys in order
RECURSIVE WriteChannelMisc(_, _, _)
WriteChannelMisc(w, misc, keys) ==
    IF w.raised # "none" \/ keys = <<>> THEN w
    ELSE WriteChannelMisc(
             IF Head(keys) \in DOMAIN misc
             THEN IF IsListKey(Head(keys))
                  THEN WriteList(w, Head(keys), misc[Head(keys)])
                  ELSE EmitNamed(w, Head(keys), misc[Head(keys)])
             ELSE w,
             misc, Tail(keys))

\* flp_write.py:177
EmitChanType(w, type) ==
    IF w.raised # "none" THEN w
    ELSE IF type \notin DOMAIN CHANNEL_TYPE_MAP THEN WRaise(w, "KeyError")
    ELSE EmitNamed(w, "FLP_ChanType", CHANNEL_TYPE_MAP[type])

\* flp_write.py:167-231, from the channel of index i on
RECURSIVE WriteChannels(_, _, _)
WriteChannels(w, channels, i) ==
    IF w.raised # "none" \/ i >= Len(channels) THEN w
    ELSE WriteChannels(
             WriteChannelMisc(
                 EmitNamed(
                     EmitItem(
                         EmitItem(
                             EmitChanType(EmitNamed(w, "FLP_NewChan", i),
                                          channels[i + 1].type),
                             "FLP_Text_PluginName", channels[i + 1].misc),
                         "FLP_NewPlugin", channels[i + 1].misc),
                     "ChannelName", _str_to_UTF16(channels[i + 1].name)),
                 channels[i + 1].misc, ChannelMiscKeys),
             channels, i + 1)

\* flp_write.py:244-247
RECURSIVE WriteTracks(_, _)
WriteTracks(w, tracks) ==
    IF w.raised # "none" \/ tracks = <<>> THEN w
    ELSE WriteTracks(
             EmitName(EmitItem(w, "TrackInfo", Head(tracks).misc),
                      "TrackName", Head(tracks).name),
             Tail(tracks))

\* flp_write.py:242-243
EmitArrangementData(w, arrangement_data) ==
    IF w.raised # "none" THEN w
    ELSE IF arrangement_data.raised # "none" THEN WRaise(w, arrangement_data.raised)
    ELSE Emit(w, 233, arrangement_data.out)

\* flp_write.py:236-247, from the arrangement of index i on
RECURSIVE WriteArrangements(_, _, _)
WriteArrangements(w, arrangements, i) ==
    IF w.raised # "none" \/ i >= Len(arrangements) THEN w
    ELSE WriteArrangements(
             WriteTracks(
                 EmitArrangementData(
                     EmitItem(
                         EmitName(Emit(w, 99, i), "ArrangementName",
                                  arrangements[i + 1].name),
                         "UNKNOWN_36", arrangements[i + 1].misc),
                     _make_arrangement_data(arrangements[i + 1].items)),
                 arrangements[i + 1].tracks),
             arrangements, i + 1)

\* flp_write.py:261-276: the events of the effect of a slot
WriteEffect(w, effect) ==
    IF w.raised # "none" THEN w
    ELSE
    WriteMisc(
        IF effect.name # <<>>
        THEN EmitNamed(
                 WriteMisc(w, effect.misc, <<"FLP_Text_PluginName", "FLP_NewPlugin">>),
                 "ChannelName", _str_to_UTF16(effect.name))
        ELSE WriteMisc(w, effect.misc, <<"FLP_Text_PluginName", "FLP_NewPlugin">>),
        effect.misc, <<"UNKNOWN_155", "FLP_Color", "FLP_PluginParams">>)

\* flp_write.py:257-276, from the slot i on
RECURSIVE WriteSlots(_, _, _)
WriteSlots(w, effects, i) ==
    IF w.raised # "none" \/ i >= 10 THEN w
    ELSE WriteSlots(
             IF i \in DOMAIN effects
             THEN WriteEffect(EmitNamed(w, "SlotIndex", i), effects[i])
             ELSE EmitNamed(w, "SlotIndex", i),
             effects, i + 1)

\* flp_write.py:254-290
RECURSIVE WriteMixerTracks(_, _)
WriteMixerTracks(w, mixerTracks) ==
    IF w.raised # "none" \/ mixerTracks = <<>> THEN w
    ELSE WriteMixerTracks(
             EmitName(
                 WriteMisc(
                     WriteSlots(
                         EmitItem(w, "MixerTrackInfo", Head(mixerTracks).misc),
                         Head(mixerTracks).effects, 0),
                     Head(mixerTracks).misc,
                     <<"MixerTrackRouting", "InsertAudioInputSource",
                       "InsertAudioOutputTarget", "MixerTrackColor", "MixerTrackIcon">>),
                 "InsertName", Head(mixerTracks).name),
             Tail(mixerTracks))

\* flp_write.py:96-106: the header, with room for the data length
FileHeader ==
    HEADERCHUNKID \o itob(6, 4) \o itob(0, 2) \o itob(4, 2) \o itob(96, 2)
        \o DATACHUNKID \o <<48, 48, 48, 48>>

\* write_FLP without its last two statements: the four bytes stay b"0000"
WriteDataLength_skipped(w, dataLengthPosition) == w

\* flp_write.py:297-303: the data length is written over the four bytes at
\* dataLengthPosition, unless an exception ended the call before
WriteDataLength(w, dataLengthPosition) ==
    IF w.raised # "none" THEN w
    ELSE [w EXCEPT !.f = SubSeq(@, 1, dataLengthPosition)
                             \o itob(Len(@) - dataLengthPosition - 4, 4)
                             \o SubSeq(@, dataLengthPosition + 5, Len(@))]

\* the bytes of the file once write_FLP(filepath, project) returned or raised,
\* the events it wrote and the exception
write_FLP(proj) ==
    WriteDataLength(
      WriteProjectEvents(
        WriteMixerTracks(
          WriteProjectEvents(
            WriteArrangements(
              WriteChannels(
                WriteAutomationClips(
                  WriteUnknown226(
                    WritePatterns(
                      WriteProjectEvents(
                        WriteChannelGroups(
                          WriteProjectEvents(
                            [f |-> FileHeader, events |-> <<>>, raised |-> "none"],
                            proj, PreludeIds),
                          proj.channelFilterGroups),
                        proj, <<146, 216>>),
                      proj.patterns, 0),
                    proj),
                  proj.channels),
                proj.channels, 0),
              proj.arrangements, 0),
            proj, <<100, 29, 39, 40, 31, 38>>),
          proj.mixerTracks),
        proj, <<225, 133>>),
      Len(FileHeader) - 4)

(***************************************************************************)
(* The reader loop of load_FLP over the events F of a file                 *)
(* (flp_read.py:538-542), and write_FLP on the Project it returns.         *)
(***************************************************************************)
Ev(eventId, contents) == [eventId |-> eventId, contents |-> contents]

\* the state that a call of _handle_flp_event leaves
Handled(st) ==
    /\ ctx' = st.ctx /\ project' = st.project /\ raised' = st.raised
    /\ warned' = st.warned /\ kwargs' = st.kwargs

\* flp_read.py:542: the next event of the file is handled
InterpretEvent ==
    /\ lpc = "load" /\ raised = "none" /\ handled < Len(F)
    /\ Handled(_handle_flp_event(
                   [ctx |-> ctx, project |-> project, raised |-> "none",
                    warned |-> warned, kwargs |-> kwargs],
                   F[handled + 1].eventId, F[handled + 1].contents))
    /\ handled' = handled + 1
    /\ UNCHANGED <<F, written, lpc, items, itemData, decoded, ipc,
                   varintVars, eventVars, diffVars, mergeVars, fileVars>>

\* load_FLP returned ctx.project, and write_FLP is called on it
WriteFLP ==
    /\ lpc = "load" /\ raised = "none" /\ handled = Len(F)
    /\ written' = write_FLP(project)
    /\ raised' = written'.raised
    /\ lpc' = "written"
    /\ UNCHANGED <<F, handled, ctx, project, warned, itemVars,
                   varintVars, eventVars, diffVars, mergeVars, fileVars>>

LoadNext == InterpretEvent \/ WriteFLP

(***************************************************************************)
(* SpecLoad: files of up to MaxStream events, in any order.                *)
(***************************************************************************)
\* a 32-byte playlist record of a pattern clip, bytes 12-15 given
TrackRecord(trackField) ==
    itob32(W(0)) \o <<0, 80>> \o itob(20481, 2) \o itob32(W(128))
        \o itob32(trackField) \o MiscBytes(0) \o itob32(W(0)) \o itob32(W(128))

StreamEvents ==
    {Ev(99, <<0, 0>>), Ev(233, <<>>), Ev(233, TrackRecord(W(0))),
     Ev(233, TrackRecord(W(500))), Ev(233, TrackRecord(W(501))),
     Ev(64, <<0, 0>>), Ev(21, <<2>>), Ev(98, <<0, 0>>), Ev(236, <<0, 0, 0, 0>>),
     Ev(203, <<65, 0>>), Ev(226, <<1>>), Ev(227, <<1>>)}

LoadInit ==
    /\ F \in SeqsUpTo(StreamEvents, MaxStream)
    /\ handled = 0 /\ ctx = NewParserContext /\ project = NewProject
    /\ warned = <<>> /\ written = <<>> /\ lpc = "load"
    /\ VarintIdle /\ EventIdle /\ ItemIdle /\ DiffIdle /\ MergeIdle /\ FileIdle /\ raised = "none"

SpecLoad == LoadInit /\ [][LoadNext]_vars

(* C7: every PlaylistItem that the PlaylistData handler builds for a record
   and appends to an arrangement has 0 <= track <= 500, whatever the record
   holds in bytes 12-15. *)
C7_TrackInRange ==
    /\ (lpc = "load" /\ kwargs # <<>>) =>
           WLeq(W(0), kwargs.track) /\ WLeq(kwargs.track, W(500))
    /\ lpc = "load" =>
           \A a \in 1..Len(project.arrangements) :
               \A n \in 1..Len(project.arrangements[a].items) :
                   /\ WLeq(W(0), project.arrangements[a].items[n].track)
                   /\ WLeq(project.arrangements[a].items[n].track, W(500))

(* C17: for every channel of a Project that the interpreter built, write_FLP
   emits one FLP_ChanType event, whose value is that of the map sampler = 0,
   generator = 2, audio_clip = 4, automation_clip = 5 for the type of the
   channel: the call at flp_write.py:177 writes that event for each channel,
   and write_FLP as a whole writes one such event per channel. *)
C17_ChanTypeWritten ==
    /\ \A n \in 1..Len(project.channels) :
           LET w == EmitChanType([f |-> <<>>, events |-> <<>>, raised |-> "none"],
                                 project.channels[n].type)
           IN  /\ w.raised = "none"
               /\ Len(w.events) = 1
               /\ w.events[1].eventId = ename_to_eid("FLP_ChanType")
               /\ w.events[1].contents[1] \in {0, 2, 4, 5}
    /\ (lpc = "written" /\ project.channels # <<>>) =>
           /\ raised = "none"
           /\ Cardinality({n \in 1..Len(written.events) :
                   written.events[n].eventId = ename_to_eid("FLP_ChanType")})
                  = Len(project.channels)

(***************************************************************************)
(* SpecRoundTrip: files whose events follow the schedule of write_FLP and  *)
(* all have a handler: the globals, then the channel filter groups, the    *)
(* patterns, the channels, the arrangements and the mixer tracks.          *)
(***************************************************************************)
\* a payload of the width of the event: 1, 2, 3 or, for a TEXT event, "A"
DefaultPayload(eventId) ==
    IF eventId < 64 THEN <<1>>
    ELSE IF eventId < 128 THEN <<2, 0>>
    ELSE IF eventId < 192 THEN <<3, 0, 0, 0>>
    ELSE <<65, 0>>

GlobalEvents(ids) == [k \in 1..Len(ids) |-> Ev(ids[k], DefaultPayload(ids[k]))]

NamedEv(eventName) == Ev(ename_to_eid(eventName), DefaultPayload(ename_to_eid(eventName)))

When(condition, evs) == IF condition THEN evs ELSE <<>>

PatternEvents(shape, i) ==
    <<Ev(65, itob(i + 1, 2))>>
        \o When(shape.named, <<NamedEv("FLP_Text_PatName")>>)
        \o When(shape.data, <<NamedEv("PatternData")>>)

ChannelEvents(shape, i) ==
    <<Ev(64, itob(i, 2)), Ev(21, <<shape.chanType>>),
      NamedEv("FLP_Text_PluginName"), NamedEv("FLP_NewPlugin"), NamedEv("ChannelName")>>
        \o When(shape.enabled, <<NamedEv("FLP_Enabled")>>)

ArrangementEvents(shape, i) ==
    <<Ev(99, itob(i, 2))>>
        \o When(shape.named, <<NamedEv("ArrangementName")>>)
        \o <<NamedEv("UNKNOWN_36"), Ev(233, shape.playlist)>>
        \o When(shape.track, <<NamedEv("TrackInfo"), NamedEv("TrackName")>>)

SlotEvents(shape, i) ==
    <<Ev(98, itob(i, 2))>>
        \o When(shape.effect /\ i = 0,
                <<NamedEv("FLP_Text_PluginName"), NamedEv("FLP_NewPlugin"),
                  NamedEv("ChannelName"), NamedEv("FLP_Color")>>)

MixerTrackEvents(shape) ==
    <<NamedEv("MixerTrackInfo")>>
        \o Concat([i \in 1..10 |-> SlotEvents(shape, i - 1)])
        \o When(shape.named, <<NamedEv("MixerTrackRouting"), NamedEv("InsertName")>>)

\* the objects of a file: none or one of each kind
GroupLists == {<<>>, <<Ev(231, <<65, 0>>)>>}

PatternLists ==
    {<<>>, PatternEvents([named |-> FALSE, data |-> FALSE], 0),
     PatternEvents([named |-> TRUE, data |-> TRUE], 0)}

ChannelLists ==
    {<<>>, ChannelEvents([chanType |-> 0, enabled |-> FALSE], 0),
     ChannelEvents([chanType |-> 2, enabled |-> TRUE], 0)}

ArrangementLists ==
    {<<>>,
     ArrangementEvents([named |-> FALSE, playlist |-> <<>>, track |-> FALSE], 0),
     ArrangementEvents([named |-> TRUE, playlist |-> <<>>, track |-> TRUE], 0),
     ArrangementEvents([named |-> TRUE, playlist |-> TrackRecord(W(500)),
                        track |-> TRUE], 0)}

MixerTrackLists ==
    {<<>>, MixerTrackEvents([effect |-> FALSE, named |-> FALSE]),
     MixerTrackEvents([effect |-> TRUE, named |-> TRUE])}

ScheduledFiles ==
    {GlobalEvents(PreludeIds) \o groups \o GlobalEvents(<<146, 216>>) \o patterns
         \o channels \o arrangements \o GlobalEvents(<<100, 29, 39, 40, 31, 38>>)
         \o mixerTracks \o GlobalEvents(<<225, 133>>) :
        groups \in GroupLists, patterns \in PatternLists, channels \in ChannelLists,
        arrangements \in ArrangementLists, mixerTracks \in MixerTrackLists}

RoundTripInit ==
    /\ F \in ScheduledFiles
    /\ handled = 0 /\ ctx = NewParserContext /\ project = NewProject
    /\ warned = <<>> /\ written = <<>> /\ lpc = "load"
    /\ VarintIdle /\ EventIdle /\ ItemIdle /\ DiffIdle /\ MergeIdle /\ FileIdle /\ raised = "none"

SpecRoundTrip == RoundTripInit /\ [][LoadNext]_vars

(* C1: for every event sequence F that follows the schedule of write_FLP and
   holds only events that have a handler, handling F event by event and then
   calling write_FLP on the Project emits exactly F: the same ids and
   payloads in the same order. *)
C1_RoundTrip ==
    (raised # "none" \/ lpc = "written") =>
        raised = "none" /\ written.events = F

(***************************************************************************)
(* The arrangement merger (flp_diff.py:180-346).  Python objects are       *)
(* shared and changed in place: merge_arrangement_changes writes the keys  *)
(* "change" and "deleted" into the item dicts of the arrangement it is     *)
(* given, and resolve_conflict_default writes into changeA.data.  The      *)
(* model carries the arrangement and the list changesA through the call    *)
(* and returns them as the call left them.  The value an item holds under  *)
(* "change" is a reference to an object of changesA: the model holds the   *)
(* position of that object in changesA (from 1).                           *)
(***************************************************************************)
ChangeStates == {"added", "deleted", "modified", "moved"}

\* the table with "delete" in the place of every "error"
actionTable_noerror ==
    [a \in ChangeStates |-> [b \in ChangeStates |->
        CASE a = "added"    -> IF b = "added" THEN "maybeAddBoth" ELSE "delete"
          [] a = "deleted"  -> "delete"
          [] a = "modified" -> (CASE b = "added"    -> "delete"
                                  [] b = "deleted"  -> "delete"
                                  [] b = "modified" -> "twoModify"
                                  [] b = "moved"    -> "maybeMoveAndModify")
          [] a = "moved"    -> (CASE b = "added"    -> "delete"
                                  [] b = "deleted"  -> "delete"
                                  [] b = "modified" -> "maybeMoveAndModify"
                                  [] b = "moved"    -> "A")]]

actionTable ==
    [a \in ChangeStates |-> [b \in ChangeStates |->
        CASE a = "added"    -> IF b = "added" THEN "maybeAddBoth" ELSE "error"
          [] a = "deleted"  -> IF b = "added" THEN "error" ELSE "delete"
          [] a = "modified" -> (CASE b = "added"    -> "error"
                                  [] b = "deleted"  -> "delete"
                                  [] b = "modified" -> "twoModify"
                                  [] b = "moved"    -> "maybeMoveAndModify")
          [] a = "moved"    -> (CASE b = "added"    -> "error"
                                  [] b = "deleted"  -> "delete"
                                  [] b = "modified" -> "maybeMoveAndModify"
                                  [] b = "moved"    -> "A")]]

\* change[key] for an ArrangementChange object: the class defines no
\* __getitem__, so the subscript raises TypeError
ChangeGetItem(change, key) == [raised |-> "TypeError", value |-> None]

\* clipsIdentical compared on the clipStart as stored, not normalised
maybeAddBoth_raw(itemA, itemB) ==
    LET clipsIdentical == /\ itemA.length = itemB.length
                          /\ itemA.clipStart = itemB.clipStart
    IN  IF clipsIdentical THEN <<itemA>> ELSE <<itemA, itemB>>

\* flp_diff.py:218-230
maybeAddBoth(itemA, itemB) ==
    LET clipsIdentical == /\ itemA.length = itemB.length
                          /\ normalise_clip_start(itemA.clipStart)
                                 = normalise_clip_start(itemB.clipStart)
    IN  IF clipsIdentical THEN <<itemA>> ELSE <<itemA, itemB>>

clipAttribs ==
    <<"start", "length", "track", "clipStart", "clipEnd", "muted", "selected">>

\* flp_diff.py:258-273: changeA.data after handleClipAttrib(attrib); the
\* value the function returns is not used by its caller
handleClipAttrib(dataA, dataB, theOriginal, attrib) ==
    LET orig     == theOriginal[attrib]
        a        == dataA[attrib]
        b        == dataB[attrib]
        aChanged == a = orig
        bChanged == b = orig
    IN  IF a = b THEN dataA
        ELSE IF aChanged /\ bChanged THEN dataA
        ELSE IF bChanged THEN [dataA EXCEPT ![attrib] = b]
        ELSE dataA

\* flp_diff.py:275-276, from the n-th attribute on
RECURSIVE TwoModifyLoop(_, _, _, _)
TwoModifyLoop(dataA, dataB, theOriginal, n) ==
    IF n > Len(clipAttribs) THEN dataA
    ELSE TwoModifyLoop(handleClipAttrib(dataA, dataB, theOriginal, clipAttribs[n]),
                       dataB, theOriginal, n + 1)

\* flp_diff.py:233-243: theModify["index"] is the first thing evaluated
maybeMoveAndModify(arr, changeA, changeB) ==
    LET theMove   == IF changeA.state = "moved" THEN changeA ELSE changeB
        theModify == IF changeA.state = "modified" THEN changeA ELSE changeB
        index     == ChangeGetItem(theModify, "index")
    IN  [raised |-> index.raised, items |-> <<>>, changeA |-> changeA]

\* flp_diff.py:180-277: the exception raised, the list returned, and changeA
\* as the call left it
resolve_conflict_default(arr, changeA, changeB) ==
    LET action == actionTable[changeA.state][changeB.state]
        same   == [raised |-> "none", items |-> <<>>, changeA |-> changeA]
    IN  CASE action = "error"  -> [same EXCEPT !.raised = "Exception"]
          [] action = "delete" -> same
          [] action = "maybeAddBoth" ->
                 [same EXCEPT !.items = maybeAddBoth(changeA.data[1], changeB.data[1])]
          [] action = "A" -> [same EXCEPT !.items = <<changeA.data[1]>>]
          [] action = "maybeMoveAndModify" ->
                 maybeMoveAndModify(arr, changeA, changeB)
          [] action = "twoModify" ->
                 LET theOriginal == arr.items[changeA.index[1] + 1]
                     data == TwoModifyLoop(changeA.data[1], changeB.data[1],
                                           theOriginal, 1)
                 IN  [same EXCEPT !.items = <<data>>, !.changeA.data = Some(data)]

\* addedA[key].append(k) for the defaultdict addedA, held like items2Dict
AddedAppend(d, key, k) ==
    LET n == DictIndex(d, key)
    IN  IF n = 0 THEN Append(d, [key |-> key, list |-> <<k>>])
        ELSE [d EXCEPT ![n].list = Append(@, k)]

\* flp_diff.py:299-305, from the k-th change of changesA on; ms holds the
\* arrangement, changesA, addedA, newItems and the exception raised
RECURSIVE AnnotateLoop(_, _)
AnnotateLoop(ms, k) ==
    IF k > Len(ms.changesA) THEN ms
    ELSE LET change == ms.changesA[k]
         IN  AnnotateLoop(
                 IF change.state = "added"
                 THEN [ms EXCEPT !.addedA = AddedAppend(@, ItemKey(change.data[1]), k)]
                 ELSE [ms EXCEPT !.arrangement.items[change.index[1] + 1] =
                                     DictSet(@, "change", k)],
                 k + 1)

\* newItems += resolveConflict(arrangement, changesA[ka], changeB); ms.calls
\* records the states of the two changes of each call
ApplyResolve(ms, ka, changeB) ==
    LET r     == resolve_conflict_default(ms.arrangement, ms.changesA[ka], changeB)
        calls == Append(ms.calls, <<ms.changesA[ka].state, changeB.state>>)
    IN  IF r.raised # "none" THEN [ms EXCEPT !.raised = r.raised, !.calls = calls]
        ELSE [ms EXCEPT !.newItems = @ \o r.items, !.changesA[ka] = r.changeA,
                        !.calls = calls]

\* flp_diff.py:315-316
ResolveAdded(ms, n, change) ==
    IF ms.addedA[n].list = <<>> THEN [ms EXCEPT !.raised = "IndexError"]
    ELSE LET after == ApplyResolve(ms, Head(ms.addedA[n].list), change)
         IN  IF after.raised # "none" THEN after
             ELSE [after EXCEPT !.addedA[n].list = Tail(@)]

\* flp_diff.py:323-326
ResolveChanged(ms, i, change) ==
    LET after == ApplyResolve(ms, ms.arrangement.items[i + 1]["change"], change)
    IN  IF after.raised # "none" THEN after
        ELSE [after EXCEPT !.arrangement.items[i + 1] = DictSet(@, "deleted", TRUE)]

\* flp_diff.py:310-326 for one change of changesB
ConflictStep(ms, change) ==
    IF change.state = "added"
    THEN LET item == change.data[1]
             n    == DictIndex(ms.addedA, ItemKey(item))
         IN  IF n # 0 THEN ResolveAdded(ms, n, change)
             ELSE [ms EXCEPT !.newItems = Append(@, item)]
    ELSE IF "change" \in DOMAIN ms.arrangement.items[change.index[1] + 1]
         THEN ResolveChanged(ms, change.index[1], change)
         ELSE ms

\* flp_diff.py:309-326, from the k-th change of changesB on
RECURSIVE ConflictLoop(_, _, _)
ConflictLoop(ms, changesOfB, k) ==
    IF ms.raised # "none" \/ k > Len(changesOfB) THEN ms
    ELSE ConflictLoop(ConflictStep(ms, changesOfB[k]), changesOfB, k + 1)

\* flp_diff.py:332-337 for an item that holds a "change"
ApplyPending(ms, item) ==
    LET change == ms.changesA[item["change"]]
        state  == ChangeGetItem(change, "state")
        data   == ChangeGetItem(change, "data")
    IN  IF state.raised # "none" THEN [ms EXCEPT !.raised = state.raised]
        ELSE IF state.value = "deleted" THEN ms
        ELSE IF data.raised # "none" THEN [ms EXCEPT !.raised = data.raised]
        ELSE [ms EXCEPT !.newItems = Append(@, data.value)]

\* flp_diff.py:329-339, from the n-th item of the arrangement on
RECURSIVE ApplyLoop(_, _)
ApplyLoop(ms, n) ==
    IF ms.raised # "none" \/ n > Len(ms.arrangement.items) THEN ms
    ELSE LET item == ms.arrangement.items[n]
         IN  ApplyLoop(IF "deleted" \in DOMAIN item THEN ms
                       ELSE IF "change" \in DOMAIN item THEN ApplyPending(ms, item)
                       ELSE [ms EXCEPT !.newItems = Append(@, item)],
                       n + 1)

\* flp_diff.py:341: the data of what is left in addedA, in the order of its
\* entries
RECURSIVE AddedData(_, _)
AddedData(changesOfA, left) ==
    IF left = <<>> THEN <<>>
    ELSE <<changesOfA[Head(left)].data[1]>> \o AddedData(changesOfA, Tail(left))

\* flp_diff.py:341-346
MergeReturn(ms) ==
    IF ms.raised # "none"
    THEN [raised |-> ms.raised, result |-> None,
          arrangement |-> ms.arrangement, changesA |-> ms.changesA,
          calls |-> ms.calls]
    ELSE [raised |-> "none",
          result |-> Some([items |-> ms.newItems \o
                                     AddedData(ms.changesA, Remaining(ms.addedA)),
                           tracks |-> ms.arrangement.tracks]),
          arrangement |-> ms.arrangement, changesA |-> ms.changesA,
          calls |-> ms.calls]

\* merge_arrangement_changes(arrangement, changesOfA, changesOfB,
\* resolve_conflict_default): the exception raised, the arrangement returned,
\* and the arrangement and the changes of A as the call left them
merge_arrangement_changes(arr, changesOfA, changesOfB) ==
    MergeReturn(
        ApplyLoop(
            ConflictLoop(
                AnnotateLoop([arrangement |-> arr, changesA |-> changesOfA,
                              addedA |-> <<>>, newItems |-> <<>>,
                              calls |-> <<>>, raised |-> "none"], 1),
                changesOfB, 1),
            1))

(***************************************************************************)
(* SpecMerge: an original arrangement of up to MaxOrigItems items, two      *)
(* edited versions of up to MaxSideItems items, and the merge of the two    *)
(* change lists.  diff_arrangement cannot build a change (see C11), so the  *)
(* change lists are the ArrangementChange objects that flp_diff.py:43-101   *)
(* gives when each object is made with its attributes set.                  *)
(***************************************************************************)
\* four items of one key: the second on another track and never shifted, the
\* third longer, the fourth shorter and muted
MergeItems ==
    {DiffItem("pattern", 0, 0, 0, 64, W(0), FALSE),
     DiffItem("pattern", 0, 0, 3, 64, NeverShifted, FALSE),
     DiffItem("pattern", 0, 0, 0, 128, W(0), FALSE),
     DiffItem("pattern", 0, 0, 0, 32, W(0), TRUE)}

ArrangementsOf(n) == {[items |-> q, tracks |-> <<>>] : q \in SeqsUpTo(MergeItems, n)}

ChangeObjects(a1, a2) == DiffWith(a1, a2, TRUE)

MergeInit ==
    /\ sideO \in ArrangementsOf(MaxOrigItems)
    /\ sideA \in ArrangementsOf(MaxSideItems)
    /\ sideB \in ArrangementsOf(MaxSideItems)
    /\ ChangeObjects(sideO, sideA).raised = "none"
    /\ ChangeObjects(sideO, sideB).raised = "none"
    /\ arrangement = sideO
    /\ changesA = ChangeObjects(sideO, sideA).changes
    /\ changesB = ChangeObjects(sideO, sideB).changes
    /\ merged = None /\ merged2 = None /\ mpc = "call"
    /\ resolverCalls = <<>> /\ resolution = <<>>
    /\ VarintIdle /\ EventIdle /\ ItemIdle /\ DiffIdle /\ LoadIdle /\ FileIdle /\ raised = "none"

MergeArrangementChanges ==
    /\ mpc = "call"
    /\ LET r == merge_arrangement_changes(arrangement, changesA, changesB)
       IN  /\ arrangement' = r.arrangement /\ changesA' = r.changesA
           /\ merged' = r.result /\ raised' = r.raised
           /\ resolverCalls' = r.calls
    /\ mpc' = "merged"
    /\ UNCHANGED <<sideO, sideA, sideB, changesB, merged2, resolution, varintVars, eventVars, itemVars, diffVars, loadVars, fileVars>>

\* the same call once more, on the same objects
MergeAgain ==
    /\ mpc = "merged" /\ raised = "none"
    /\ LET r == merge_arrangement_changes(arrangement, changesA, changesB)
       IN  /\ arrangement' = r.arrangement /\ changesA' = r.changesA
           /\ merged2' = r.result /\ raised' = r.raised
           /\ resolverCalls' = resolverCalls \o r.calls
    /\ mpc' = "merged again"
    /\ UNCHANGED <<sideO, sideA, sideB, changesB, merged, resolution, varintVars, eventVars, itemVars, diffVars, loadVars, fileVars>>

\* resolve_conflict_default called on its own, on a change of each list
ResolveConflict ==
    /\ mpc = "call"
    /\ \E ka \in 1..Len(changesA), kb \in 1..Len(changesB) :
          LET r == resolve_conflict_default(arrangement, changesA[ka], changesB[kb])
          IN  /\ resolution' = [changeA |-> changesA[ka], changeB |-> changesB[kb],
                                items |-> r.items]
              /\ changesA' = [changesA EXCEPT ![ka] = r.changeA]
              /\ raised' = r.raised
    /\ mpc' = "resolved"
    /\ UNCHANGED <<sideO, sideA, sideB, arrangement, changesB, merged, merged2, resolverCalls, varintVars, eventVars, itemVars, diffVars, loadVars, fileVars>>

MergeNext == MergeArrangementChanges \/ MergeAgain \/ ResolveConflict

SpecMerge == MergeInit /\ [][MergeNext]_vars

\* the change lists handed to the merger, as they were before the call
GivenA == ChangeObjects(sideO, sideA).changes

GivenB == ChangeObjects(sideO, sideB).changes

\* the changes of a list that are about the item of O at the zero-based index i
ChangesAt(given, i) == {n \in 1..Len(given) : given[n].index = Some(i)}

Adds(given) == {n \in 1..Len(given) : given[n].state = "added"}

\* what the single change c makes of an item: nothing when it deletes it,
\* else the item as that side left it
AfterChange(c) == IF c.state = "deleted" THEN <<>> ELSE <<c.data[1]>>

\* the items of O from the n-th on, each as its only change (if any) leaves it
RECURSIVE SingleSideItems(_)
SingleSideItems(n) ==
    IF n > Len(sideO.items) THEN <<>>
    ELSE LET ofA == ChangesAt(GivenA, n - 1)
             ofB == ChangesAt(GivenB, n - 1)
         IN  (IF ofA # {} THEN AfterChange(GivenA[CHOOSE k \in ofA : TRUE])
              ELSE IF ofB # {} THEN AfterChange(GivenB[CHOOSE k \in ofB : TRUE])
              ELSE <<sideO.items[n]>>)
             \o SingleSideItems(n + 1)

(* C12: when no item of O is changed by both sides (and neither side adds an
   item), the merge returns, for each item of O in turn: the item itself when
   neither side changed it, nothing when its single change is "deleted", and
   the changing side's item when its single change is "modified" or "moved". *)
C12_SingleSideChange ==
    (/\ mpc = "merged"
     /\ Adds(GivenA) = {} /\ Adds(GivenB) = {}
     /\ \A i \in 0..(Len(sideO.items) - 1) :
            ChangesAt(GivenA, i) = {} \/ ChangesAt(GivenB, i) = {})
    => /\ raised = "none"
       /\ merged # None
       /\ merged[1].items = SingleSideItems(1)

\* the attribute-wise merge of two modified versions a and b of orig
MergedAttrib(orig, a, b) ==
    IF a = b THEN a ELSE IF a = orig THEN b ELSE a

(* C13: when both sides modified the same item of O (and nothing else
   changed), the merged item has, for each of start, length, track, clipStart,
   clipEnd, muted and selected: the common value when the sides agree, the
   value of the side that differs from the original when exactly one does,
   and A's value when both differ and disagree. *)
C13_TwoModify ==
    (/\ mpc = "merged"
     /\ Len(sideO.items) = 1 /\ Len(GivenA) = 1 /\ Len(GivenB) = 1
     /\ GivenA[1].state = "modified" /\ GivenB[1].state = "modified")
    => /\ raised = "none"
       /\ merged # None
       /\ Len(merged[1].items) = 1
       /\ \A n \in 1..Len(clipAttribs) :
              merged[1].items[1][clipAttribs[n]]
                  = MergedAttrib(sideO.items[1][clipAttribs[n]],
                                 GivenA[1].data[1][clipAttribs[n]],
                                 GivenB[1].data[1][clipAttribs[n]])

(* C14: when A and B each add one item with the same key (and change nothing
   else), the merged arrangement holds one copy of the added item if the two
   have equal length and equal normalised clipStart, and both items
   otherwise, next to the items of O; in particular, with O empty and both
   sides adding the identical item X, the merged arrangement holds X once. *)
C14_BothAdded ==
    (/\ mpc = "merged"
     /\ Len(GivenA) = 1 /\ Len(GivenB) = 1
     /\ GivenA[1].state = "added" /\ GivenB[1].state = "added"
     /\ ItemKey(GivenA[1].data[1]) = ItemKey(GivenB[1].data[1]))
    => LET itemA == GivenA[1].data[1]
           itemB == GivenB[1].data[1]
           same  == /\ itemA.length = itemB.length
                    /\ normalise_clip_start(itemA.clipStart)
                           = normalise_clip_start(itemB.clipStart)
       IN  /\ raised = "none"
           /\ merged # None
           /\ IF same
              THEN \E x \in {itemA, itemB} : merged[1].items = <<x>> \o sideO.items
              ELSE merged[1].items = <<itemA, itemB>> \o sideO.items
           /\ (sideO.items = <<>> /\ itemA = itemB) => merged[1].items = <<itemA>>

\* O empty, both sides add the never-shifted and the unshifted form of an item
C14_Witness ==
    /\ mpc = "merged" /\ sideO.items = <<>>
    /\ Len(sideA.items) = 1 /\ Len(sideB.items) = 1
    /\ sideA.items[1].clipStart = W(0) /\ sideB.items[1].clipStart = NeverShifted
    /\ sideA.items[1].length = sideB.items[1].length
    /\ merged = Some([items |-> sideA.items, tracks |-> <<>>])

(* C15: for every O, A and B the merge of the two change lists returns a
   merged arrangement and raises nothing, also when the two sides add
   different numbers of items with the same key. *)
C15_MergeNeverRaises ==
    mpc = "merged" => raised = "none" /\ merged # None

(* C16: the merge changes none of its inputs: after it returned, the items
   of O and the changes of both lists are what they were before the call, and
   a second merge of the same inputs returns the same merged items. *)
C16_MergeIsPure ==
    /\ (mpc = "merged" /\ raised = "none") =>
           /\ arrangement = sideO
           /\ changesA = GivenA
           /\ changesB = GivenB
    /\ mpc = "merged again" => raised = "none" /\ merged2 = merged

(***************************************************************************)
(* load_FLP on the bytes of a file (flp_read.py:504-545): the header and    *)
(* the data chunk are checked, then the events of the data chunk are read   *)
(* and handled one by one.  error(msg) raises Exception and warn(msg)       *)
(* prints; the model keeps what was printed in warned.                      *)
(***************************************************************************)
\* flp_read.py:509-535 with the data length left unchecked
load_FLP_header_unchecked(file) ==
    LET fileLength    == Len(file)
        formatWarning == IF btoi(read(file, 8, 2)) # 0
                         THEN <<"header format not 0">> ELSE <<>>
    IN  IF read(file, 0, 4) # HEADERCHUNKID
        THEN [raised |-> "Exception", tell |-> Min(fileLength, 4), warned |-> <<>>]
        ELSE IF btoi32(read(file, 4, 4)) # W(6)
        THEN [raised |-> "Exception", tell |-> Min(fileLength, 8), warned |-> <<>>]
        ELSE IF read(file, 14, 4) # DATACHUNKID
        THEN [raised |-> "Exception", tell |-> Min(fileLength, 18),
              warned |-> formatWarning]
        ELSE [raised |-> "none", tell |-> Min(fileLength, 22),
              warned |-> formatWarning]

\* flp_read.py:509-535: the exception raised, the position f.tell() reached
\* and the warnings printed.  The reads follow one another from position 0,
\* each of them short at the end of the file
load_FLP_header(file) ==
    LET fileLength    == Len(file)
        formatWarning == IF btoi(read(file, 8, 2)) # 0
                         THEN <<"header format not 0">> ELSE <<>>
    IN  IF read(file, 0, 4) # HEADERCHUNKID
        THEN [raised |-> "Exception", tell |-> Min(fileLength, 4), warned |-> <<>>]
        ELSE IF btoi32(read(file, 4, 4)) # W(6)
        THEN [raised |-> "Exception", tell |-> Min(fileLength, 8), warned |-> <<>>]
        ELSE IF read(file, 14, 4) # DATACHUNKID
        THEN [raised |-> "Exception", tell |-> Min(fileLength, 18),
              warned |-> formatWarning]
        ELSE IF btoi32(read(file, 18, 4)) # W(fileLength - Min(fileLength, 22))
        THEN [raised |-> "Exception", tell |-> Min(fileLength, 22),
              warned |-> formatWarning]
        ELSE [raised |-> "none", tell |-> Min(fileLength, 22),
              warned |-> formatWarning]

(***************************************************************************)
(* SpecFile: load_FLP on files whose header fields are right or wrong one   *)
(* by one, and whose data chunk holds whole events or ends inside one.      *)
(***************************************************************************)
\* data chunks: none; FLP_NewChan 0; FLP_NewChan 0 and FLP_ChanType 2; and
\* chunks that end inside the payload of a WORD, BYTE, DWORD or TEXT event,
\* before the size of a TEXT event, or inside a size whose last byte has the
\* continuation bit set
DataChunks ==
    {<<>>, <<64, 0, 0>>, <<64, 0, 0, 21, 2>>,
     <<64, 0>>, <<21>>, <<129, 1, 2>>, <<203, 4, 65, 0>>, <<203>>,
     <<64, 0, 0, 203, 2, 65>>,
     <<194, 129>>, <<64, 0, 0, 194, 255, 255>>, <<194, 2, 65, 0, 194>>}

FileOf(headerChunkID, headerLength, headerFormat, dataChunkId, extra, data) ==
    headerChunkID \o itob(headerLength, 4) \o itob(headerFormat, 2) \o itob(4, 2)
        \o itob(96, 2) \o dataChunkId \o itob(Len(data) + extra, 4) \o data

\* every file of FileOf, and what is left of one when it is cut short
Files ==
    {FileOf(id, hl, hf, did, extra, data) :
        id \in {HEADERCHUNKID, <<70, 76, 104, 120>>}, hl \in {6, 7}, hf \in {0, 1},
        did \in {DATACHUNKID, <<70, 76, 100, 120>>}, extra \in {0, 1},
        data \in DataChunks}
    \cup {SubSeq(FileOf(HEADERCHUNKID, 6, 0, DATACHUNKID, 0, <<>>), 1, n) :
             n \in {0, 3, 7, 9, 17, 20}}

FileInit ==
    /\ fileBytes \in Files /\ fpos = 0 /\ fpc = "open"
    /\ F = <<>> /\ handled = 0 /\ ctx = NewParserContext /\ project = NewProject
    /\ warned = <<>> /\ written = <<>> /\ lpc = "idle"
    /\ VarintIdle /\ EventIdle /\ ItemIdle /\ DiffIdle /\ MergeIdle /\ raised = "none"

\* flp_read.py:505-535
ReadHeader ==
    /\ fpc = "open"
    /\ LET h == load_FLP_header(fileBytes)
       IN  /\ raised' = h.raised /\ fpos' = h.tell /\ warned' = h.warned
           /\ fpc' = IF h.raised = "none" THEN "events" ELSE "raised"
    /\ UNCHANGED <<fileBytes, F, handled, ctx, project, written, lpc, varintVars, eventVars, itemVars, diffVars, mergeVars>>

\* flp_read.py:538-543: one turn of the loop
LoadEvent ==
    /\ fpc = "events" /\ Len(fileBytes) - fpos # 0
    /\ LET r == ReadOneEvent(fileBytes, fpos)
       IN  /\ fpos' = r.tell
           /\ F' = Append(F, [eventId |-> r.eventId, contents |-> r.contents,
                              eventSize |-> r.eventSize])
           /\ Handled(_handle_flp_event(
                          [ctx |-> ctx, project |-> project, raised |-> "none",
                           warned |-> warned, kwargs |-> kwargs],
                          r.eventId, r.contents))
           /\ fpc' = IF raised' = "none" THEN "events" ELSE "raised"
    /\ handled' = handled + 1
    /\ UNCHANGED <<fileBytes, written, lpc, items, itemData, decoded, ipc, varintVars, eventVars, diffVars, mergeVars>>

\* flp_read.py:538 and 545: nothing is left to read
ReturnProject ==
    /\ fpc = "events" /\ Len(fileBytes) - fpos = 0
    /\ fpc' = "returned"
    /\ UNCHANGED <<fileBytes, fpos, raised, loadVars, varintVars, eventVars, itemVars, diffVars, mergeVars>>

FileNext == ReadHeader \/ LoadEvent \/ ReturnProject

SpecFile == FileInit /\ [][FileNext]_vars

\* the header fields of the file, by their offsets
BadHeader ==
    \/ Slice(fileBytes, 0, 4) # HEADERCHUNKID
    \/ btoi32(Slice(fileBytes, 4, 8)) # W(6)
    \/ Slice(fileBytes, 14, 18) # DATACHUNKID
    \/ btoi32(Slice(fileBytes, 18, 22)) # W(Max(Len(fileBytes) - 22, 0))

(* C18: when the magic is not FLhd, the header length is not 6, the data
   chunk magic is not FLdt, or the stored data length is not the number of
   bytes that remain, load_FLP ends with an exception and no event has been
   interpreted; a header format other than 0 only prints a warning, and the
   events are read. *)
C18_HeaderChecks ==
    fpc # "open" =>
        IF BadHeader
        THEN fpc = "raised" /\ raised = "Exception" /\ handled = 0 /\ F = <<>>
                 /\ project = NewProject
        ELSE /\ handled = 0 => fpc \in {"events", "returned"} /\ raised = "none"
             /\ handled = Len(F)
             /\ btoi(Slice(fileBytes, 8, 10)) # 0
                    <=> \E n \in 1..Len(warned) : warned[n] = "header format not 0"

\* a file whose stored data length is one more than what remains, all else right
C18_Witness ==
    /\ fpc = "raised" /\ raised = "Exception" /\ handled = 0
    /\ Slice(fileBytes, 0, 4) = HEADERCHUNKID
    /\ btoi32(Slice(fileBytes, 4, 8)) = W(6)
    /\ Slice(fileBytes, 14, 18) = DATACHUNKID
    /\ Len(fileBytes) = 27
    /\ btoi32(Slice(fileBytes, 18, 22)) = W(6)

(* C19: when the payload width of an event reaches beyond the end of the
   data chunk, the reader reports an error and hands no shortened payload to
   the interpreter: every payload handed over has the width of its event. *)
C19_NoShortPayload ==
    \A n \in 1..Len(F) : Len(F[n].contents) = F[n].eventSize

(* C23: in the items that merge_arrangement_changes returns, the items that
   derive from the items of O come before the items newly added by A or by
   B.  When both sides only add items, the returned list therefore begins
   with the items of O. *)
C23_AddedItemsLast ==
    (/\ mpc = "merged" /\ raised = "none"
     /\ Adds(GivenA) = 1..Len(GivenA) /\ Adds(GivenB) = 1..Len(GivenB))
    => /\ merged # None
       /\ Len(merged[1].items) >= Len(sideO.items)
       /\ SubSeq(merged[1].items, 1, Len(sideO.items)) = sideO.items

(* C24: when one side moved an item of O and the other side modified it (and
   nothing else changed), the merged items hold exactly the modified side's
   item for it, on the moved side's track if the modified side left the
   track of the original, and on the modified side's own track otherwise. *)
C24_MoveAndModify ==
    (/\ mpc = "merged"
     /\ Len(sideO.items) = 1 /\ Len(GivenA) = 1 /\ Len(GivenB) = 1
     /\ {GivenA[1].state, GivenB[1].state} = {"moved", "modified"})
    => LET theMove   == IF GivenA[1].state = "moved" THEN GivenA[1] ELSE GivenB[1]
           theModify == IF GivenA[1].state = "modified" THEN GivenA[1] ELSE GivenB[1]
           modified  == theModify.data[1]
       IN  /\ raised = "none"
           /\ merged # None
           /\ merged[1].items =
                  <<IF modified.track = sideO.items[1].track
                    THEN [modified EXCEPT !.track = theMove.data[1].track]
                    ELSE modified>>

(* C25: merging two change lists that diff_arrangement gives against one O,
   the merger calls the resolver only with two added changes or with two
   changes that are each deleted, modified or moved, never with a pair for
   which the action table says "error"; and resolve_conflict_default called
   on such a pair raises an exception and returns no items. *)
C25_ErrorCells ==
    /\ \A n \in 1..Len(resolverCalls) :
           \/ resolverCalls[n] = <<"added", "added">>
           \/ /\ resolverCalls[n][1] \in {"deleted", "modified", "moved"}
              /\ resolverCalls[n][2] \in {"deleted", "modified", "moved"}
    /\ (/\ mpc = "resolved"
        /\ (resolution.changeA.state = "added") # (resolution.changeB.state = "added"))
       => raised = "Exception" /\ resolution.items = <<>>

\* resolve_conflict_default called with an added and a deleted change
C25_Witness ==
    /\ mpc = "resolved" /\ raised = "Exception"
    /\ resolution.changeA.state = "added" /\ resolution.changeB.state = "deleted"

(***************************************************************************)
(* SpecContext: files of up to MaxStream events that build entities, set   *)
(* the context of the interpreter and address the current entity, among    *)
(* them events whose names handlerLUT lacks.                               *)
(***************************************************************************)
ContextEvents ==
    {Ev(98, <<0, 0>>), Ev(98, <<10, 0>>),
     Ev(64, <<0, 0>>), Ev(64, <<5, 0>>), Ev(65, <<0, 0>>), Ev(65, <<1, 0>>),
     Ev(99, <<0, 0>>), Ev(99, <<1, 0>>), Ev(236, <<0, 0, 0, 0>>), Ev(238, <<0>>),
     Ev(128, <<1, 2, 3, 0>>), Ev(201, <<65, 0>>), Ev(212, <<1>>), Ev(213, <<1>>),
     Ev(155, <<1, 0, 0, 0>>), Ev(203, <<65, 0>>),
     Ev(8, <<1>>), Ev(1, <<1>>), Ev(205, <<65, 0>>), Ev(227, <<1>>),
     Ev(224, <<1>>), Ev(204, <<65, 0>>), Ev(36, <<1>>)}

ContextInit ==
    /\ F \in SeqsUpTo(ContextEvents, MaxStream)
    /\ handled = 0 /\ ctx = NewParserContext /\ project = NewProject
    /\ warned = <<>> /\ written = <<>> /\ lpc = "load"
    /\ VarintIdle /\ EventIdle /\ ItemIdle /\ DiffIdle /\ MergeIdle /\ FileIdle /\ raised = "none"

ContextNext == InterpretEvent

SpecContext == ContextInit /\ [][ContextNext]_vars

\* the name of the k-th event of the file
NameOf(k) == eid_to_ename(F[k].eventId)

\* the position of the latest handled event of that name, 0 when there is none
LatestEvent(eventName) ==
    LET at == {k \in 1..handled : NameOf(k) = eventName}
    IN  IF at = {} THEN 0 ELSE CHOOSE k \in at : \A j \in at : j <= k

(* C26: at every point of every event sequence isMixerEffect is true exactly
   when a SlotIndex event has been handled and no FLP_NewChan event has been
   handled after the latest SlotIndex; it is false before the first event,
   and no other event changes it. *)
C26_IsMixerEffect ==
    lpc = "load" =>
        (ctx.isMixerEffect <=>
             /\ LatestEvent("SlotIndex") > 0
             /\ LatestEvent("FLP_NewChan") < LatestEvent("SlotIndex"))

C26_Witness ==
    /\ lpc = "load" /\ handled = 3 /\ ~ctx.isMixerEffect
    /\ LatestEvent("SlotIndex") = 1 /\ LatestEvent("FLP_NewChan") = 2
    /\ NameOf(3) = "FLP_NewPlugin" /\ raised = "none"

\* the event that the last step handled, and the state it was handled in
Step(eventName) ==
    /\ lpc = "load" /\ handled' = handled + 1 /\ NameOf(handled') = eventName

\* the value that _handle_flp_event passes to the handler of the event
StepValue == PayloadValue(F[handled'].eventId, F[handled'].contents)

ContextAware ==
    {"FLP_Color", "FLP_Text_PluginName", "FLP_NewPlugin", "FLP_PluginParams",
     "UNKNOWN_155"}

\* the current mixer track, or the current channel, exists
CurrentTarget ==
    IF ctx.isMixerEffect
    THEN 0 <= ctx.currentMixerTrack /\ ctx.currentMixerTrack < Len(project.mixerTracks)
    ELSE 0 <= ctx.currentChannel /\ ctx.currentChannel < Len(project.channels)

\* the effect of the current slot, and the current channel, after the step
EffectAfter ==
    project'.mixerTracks[ctx.currentMixerTrack + 1]
        .effects[ctx.currentMixerTrackEffectSlot]

ChannelAfter == project'.channels[ctx.currentChannel + 1]

(* C27: in every reachable state of the interpreter whose current mixer
   track (with isMixerEffect true) or current channel (with isMixerEffect
   false) exists, a ChannelName event and each of the events FLP_Color,
   FLP_Text_PluginName, FLP_NewPlugin, FLP_PluginParams and UNKNOWN_155 is
   stored, with isMixerEffect true, on the effect at slot
   currentMixerTrackEffectSlot of mixer track currentMixerTrack, also when
   that slot holds no effect yet, and changes no channel; with isMixerEffect
   false it is stored on channel currentChannel and changes no mixer track. *)
C27_ContextAwareTarget ==
    [][\A eventName \in ContextAware \cup {"ChannelName"} :
           (Step(eventName) /\ CurrentTarget) =>
               /\ raised' = "none"
               /\ IF ctx.isMixerEffect
                  THEN /\ project'.channels = project.channels
                       /\ ctx.currentMixerTrackEffectSlot \in
                              DOMAIN project'.mixerTracks[ctx.currentMixerTrack + 1].effects
                       /\ IF eventName = "ChannelName"
                          THEN EffectAfter.name = decode_UTF16(StepValue).s
                          ELSE EffectAfter.misc[eventName] = StepValue
                  ELSE /\ project'.mixerTracks = project.mixerTracks
                       /\ IF eventName = "ChannelName"
                          THEN ChannelAfter.name = decode_UTF16(StepValue).s
                          ELSE ChannelAfter.misc[eventName] = StepValue]_vars

Constructors ==
    {"FLP_NewChan", "FLP_NewPat", "ArrangementIndex", "MixerTrackInfo", "TrackInfo"}

\* the sequence that the constructor appends to, in the project proj with
\* the current arrangement at position a
SequenceOf(eventName, proj, a) ==
    CASE eventName = "FLP_NewChan" -> proj.channels
      [] eventName = "FLP_NewPat" -> proj.patterns
      [] eventName = "ArrangementIndex" -> proj.arrangements
      [] eventName = "MixerTrackInfo" -> proj.mixerTracks
      [] eventName = "TrackInfo" -> proj.arrangements[a].tracks

\* the context pointer that the constructor sets
PointerOf(eventName, c) ==
    CASE eventName = "FLP_NewChan" -> c.currentChannel
      [] eventName = "FLP_NewPat" -> c.currentPattern
      [] eventName = "ArrangementIndex" -> c.currentArrangement
      [] eventName = "MixerTrackInfo" -> c.currentMixerTrack
      [] eventName = "TrackInfo" -> c.currentArrangementTrack

(* C28: after every constructor event (FLP_NewChan, FLP_NewPat,
   ArrangementIndex, MixerTrackInfo, TrackInfo), whatever its payload, exactly
   one new entity has been appended to the sequence of its category (for
   TrackInfo the tracks of the current arrangement, which exists) and the
   context pointer of the category is the index of that new, last entity. *)
C28_ConstructorAppends ==
    [][\A eventName \in Constructors :
           (/\ Step(eventName)
            /\ eventName = "TrackInfo" =>
                   /\ 0 <= ctx.currentArrangement
                   /\ ctx.currentArrangement < Len(project.arrangements)) =>
               /\ raised' = "none"
               /\ Len(SequenceOf(eventName, project', ctx.currentArrangement + 1))
                      = Len(SequenceOf(eventName, project, ctx.currentArrangement + 1)) + 1
               /\ PointerOf(eventName, ctx')
                      = Len(SequenceOf(eventName, project', ctx.currentArrangement + 1)) - 1]_vars

\* a context pointer is -1 with nothing constructed, or the index of an entity
PointerInRange(pointer, entities, constructor) ==
    \/ pointer = -1 /\ entities = <<>> /\ LatestEvent(constructor) = 0
    \/ 0 <= pointer /\ pointer < Len(entities)

(* C29: after any sequence of events each of currentChannel, currentPattern,
   currentArrangement and currentMixerTrack is either -1, and then its
   sequence is empty and no constructor of its category has run, or an index
   smaller than the length of its sequence. *)
C29_PointersInRange ==
    lpc = "load" =>
        /\ PointerInRange(ctx.currentChannel, project.channels, "FLP_NewChan")
        /\ PointerInRange(ctx.currentPattern, project.patterns, "FLP_NewPat")
        /\ PointerInRange(ctx.currentArrangement, project.arrangements,
                          "ArrangementIndex")
        /\ PointerInRange(ctx.currentMixerTrack, project.mixerTracks,
                          "MixerTrackInfo")

(* C30: an event whose name is not in the dispatch table handlerLUT, be it
   an UNKNOWN_<id> name or a name of EID_NAMES, causes one warning that names
   it and leaves the project and the seven fields of the context unchanged;
   no exception is raised, so the next event is processed. *)
C30_UnhandledIgnored ==
    [][(/\ lpc = "load" /\ handled' = handled + 1
        /\ NameOf(handled') \notin DOMAIN handlerLUT) =>
           /\ warned' = Append(warned, NameOf(handled'))
           /\ project' = project /\ ctx' = ctx /\ raised' = "none"]_vars

C30_Witness ==
    /\ lpc = "load" /\ handled = 3 /\ raised = "none"
    /\ NameOf(1) = "MixerTrackInfo" /\ NameOf(2) = "UNKNOWN_205"
    /\ NameOf(3) = "InsertName"
    /\ warned = <<"UNKNOWN_205">>
    /\ project.mixerTracks[1].name = Some(<<65>>)

\* the payloads of the handled events of that name, in the order of the file
RECURSIVE PayloadsOf(_, _)
PayloadsOf(eventName, k) ==
    IF k = 0 THEN <<>>
    ELSE IF NameOf(k) = eventName
    THEN Append(PayloadsOf(eventName, k - 1), F[k].contents)
    ELSE PayloadsOf(eventName, k - 1)

(* C31: after the interpreter has handled an AutomationClipData event, with
   a channel in the project, the raw payload of the event is kept as the data
   of a channel; and the step of write_FLP that writes the automation clips
   (flp_write.py:162-164) emits, for the project, the AutomationClipData
   events of the file with their payloads. *)
C31_AutomationClipKept ==
    (lpc = "load" /\ raised = "none") =>
        /\ (/\ handled > 0 /\ NameOf(handled) = "AutomationClipData"
            /\ project.channels # <<>>) =>
               \E n \in 1..Len(project.channels) :
                   project.channels[n].data = Some(F[handled].contents)
        /\ LET w == WriteAutomationClips(
                        [f |-> <<>>, events |-> <<>>, raised |-> "none"],
                        project.channels)
           IN  /\ w.raised = "none"
               /\ w.events =
                      [k \in 1..Len(PayloadsOf("AutomationClipData", handled)) |->
                           Ev(ename_to_eid("AutomationClipData"),
                              PayloadsOf("AutomationClipData", handled)[k])]

(* C32: every UNKNOWN_226 event of the file is retained by the interpreter in
   projectInfo, in the order of the file, and the step of write_FLP that
   follows the patterns and precedes the channels (flp_write.py:158-159)
   emits one UNKNOWN_226 event per retained payload, in that order; that step
   completes on the project of a file without an UNKNOWN_226 event. *)
C32_Unknown226Kept ==
    (lpc = "load" /\ raised = "none") =>
        /\ PayloadsOf("UNKNOWN_226", handled) # <<>> =>
               /\ "UNKNOWN_226" \in DOMAIN project.projectInfo
               /\ project.projectInfo["UNKNOWN_226"]
                      = PayloadsOf("UNKNOWN_226", handled)
        /\ LET w == WriteUnknown226(
                        [f |-> <<>>, events |-> <<>>, raised |-> "none"], project)
           IN  /\ w.raised = "none"
               /\ w.events =
                      [k \in 1..Len(PayloadsOf("UNKNOWN_226", handled)) |->
                           Ev(226, PayloadsOf("UNKNOWN_226", handled)[k])]

(***************************************************************************)
(* SpecWrite: a file that follows the schedule of write_FLP is handled     *)
(* event by event; the caller then gives the Project what write_FLP needs  *)
(* and no handler sets (projectInfo["UNKNOWN_226"], and the type and data  *)
(* of every channel), calls write_FLP, and load_FLP opens the file written. *)
(***************************************************************************)
Unknown226Lists == {<<>>, <<<<1>>>>, <<<<1>>, <<2, 3>>>>}

ChannelTypes == {"sampler", "generator", "audio_clip", "automation_clip"}

WriteInit ==
    /\ F \in ScheduledFiles
    /\ handled = 0 /\ ctx = NewParserContext /\ project = NewProject
    /\ warned = <<>> /\ written = <<>> /\ lpc = "load"
    /\ VarintIdle /\ EventIdle /\ ItemIdle /\ DiffIdle /\ MergeIdle /\ FileIdle /\ raised = "none"

\* assignments to the fields of the Project and of its Channels
CompleteProject ==
    /\ lpc = "load" /\ raised = "none" /\ handled = Len(F)
    /\ \E unknown226 \in Unknown226Lists, type \in ChannelTypes :
           project' = [project EXCEPT
               !.projectInfo = DictSet(@, "UNKNOWN_226", unknown226),
               !.channels = [n \in 1..Len(@) |->
                                [@[n] EXCEPT !.type = type, !.data = Some(<<9, 8>>)]]]
    /\ lpc' = "built"
    /\ UNCHANGED <<F, handled, ctx, warned, written, raised, itemVars,
                   varintVars, eventVars, diffVars, mergeVars, fileVars>>

\* write_FLP(filepath, project); the file is then the one load_FLP opens
WriteProject ==
    /\ lpc = "built"
    /\ written' = write_FLP(project)
    /\ raised' = written'.raised
    /\ lpc' = "written"
    /\ fileBytes' = written'.f
    /\ fpc' = IF written'.raised = "none" THEN "open" ELSE "idle"
    /\ UNCHANGED <<F, handled, ctx, project, warned, fpos, itemVars,
                   varintVars, eventVars, diffVars, mergeVars>>

WriteNext == InterpretEvent \/ CompleteProject \/ WriteProject \/ ReadHeader

SpecWrite == WriteInit /\ [][WriteNext]_vars

(* C33: after write_FLP completes, the 4-byte little-endian field that
   follows the FLdt magic of the file equals the number of bytes of the file
   after that field, and the header checks of load_FLP, the data-length check
   among them, accept the file. *)
C33_DataLengthWritten ==
    /\ (lpc = "written" /\ written.raised = "none") =>
           /\ SubSeq(written.f, 15, 18) = DATACHUNKID
           /\ btoi32(SubSeq(written.f, 19, 22)) = W(Len(written.f) - 22)
    /\ (lpc = "written" /\ fpc \in {"events", "raised"}) =>
           fpc = "events" /\ raised = "none" /\ fpos = 22

C33_Witness ==
    /\ lpc = "written" /\ fpc = "events" /\ raised = "none"
    /\ project.channels # <<>> /\ project.mixerTracks # <<>>
    /\ project.projectInfo["UNKNOWN_226"] = <<<<1>>, <<2, 3>>>>
    /\ Len(written.f) > 22 + 128

\* the muted and selected values of an item are those of byte 19 of its record
FlagsMatchMisc(item) ==
    /\ item.muted = BitSet(item.misc[4], 32)
    /\ item.selected = BitSet(item.misc[4], 128)

(* C34: the items of O, A and B having muted equal to bit 5 and selected
   equal to bit 7 of misc[3], byte 19 of the record, so has every item that
   the merge engine places in the merged arrangement. *)
C34_FlagsMatchMisc ==
    (mpc = "merged" /\ raised = "none") =>
        \A n \in 1..Len(merged[1].items) : FlagsMatchMisc(merged[1].items[n])

\* the slots that write_FLP visits for each mixer track (flp_write.py:256)
WrittenSlots == 0..9

(* C35: after any sequence of events, every key of the effects mapping of
   every mixer track lies in 0..9, the slots that write_FLP visits. *)
C35_SlotsInRange ==
    lpc = "load" =>
        \A n \in 1..Len(project.mixerTracks) :
            DOMAIN project.mixerTracks[n].effects \subseteq WrittenSlots

(***************************************************************************)
(* SpecFileFair: SpecFile with every enabled step of load_FLP eventually   *)
(* taken: the function is sequential code that nothing suspends.           *)
(***************************************************************************)
SpecFileFair == FileInit /\ [][FileNext]_vars /\ WF_vars(FileNext)

(* C36: for every data chunk, including one that ends in the middle of an
   event or in the middle of a size whose last byte has the continuation bit
   set, the reader loop of load_FLP terminates: every turn of the loop
   consumes at least one byte and never reads past the end, the loop is left
   only when no byte remains or an exception is raised, and load_FLP
   eventually returns or raises. *)
C36_LoaderTerminates ==
    /\ [][(fpc = "events" /\ handled' = handled + 1) =>
              (fpos < fpos' /\ fpos' <= Len(fileBytes))]_vars
    /\ [][(fpc = "events" /\ fpc' = "returned") => fpos = Len(fileBytes)]_vars
    /\ <>(fpc \in {"returned", "raised"})

C36_Witness ==
    /\ fpc = "returned" /\ raised = "none" /\ handled = 2
    /\ F[2].eventId = 194 /\ F[2].eventSize = 16383 /\ F[2].contents = <<>>
    /\ fpos = Len(fileBytes)

====
